---- MODULE Spec2Model ----
(***************************************************************************)
(* Verification model of the rivo-mu compiler core:                        *)
(*   - closure conversion and lambda lifting of HIR   (src/src/hir/cc.rs)  *)
(*   - LIR -> LLVM emission                      (src/src/gen/llvm_gen.rs) *)
(*                                                                         *)
(* Trees are records with a "tag" field naming the enum variant and the    *)
(* variant's fields under the names the source gives them.  A Vec is a     *)
(* sequence, a HashTrieSet a set, a HashMap a function.                     *)
(***************************************************************************)
EXTENDS Integers, Sequences, FiniteSets, TLC

VARIABLES
    \* ---- Lift::lift (cc.rs) ----
    root,       \* the input Root: a sequence of Defs
    pc,         \* position of Lift::lift: "convert" | "lift" | "append" | "done" | "panic" | "idle"
    cc,         \* the HIR/CC tree of the definition being lifted (exp.convert())
    defs,       \* `defs` of Lift::lift
    decls,      \* `decls` of Lift::lift: the hoisted FunDefs
    fresh,      \* the process-wide counter behind Name::fresh
    \* ---- Substitute (cc.rs), applied to drawn inputs ----
    sub_e,      \* the HIR/CC expression substituted into
    sub_s,      \* the substitution (HashMap<Name, hircc::Exp>)
    sub_r,      \* the result of sub_e.subst(sub_s), or NoResult
    \* ---- BodyTranslator (llvm_gen.rs) ----
    body,       \* the LIR statements of the procedure
    params,     \* BodyTranslator.params: the names of the formal parameters
    epc,        \* position of translate: "entry" | "loop" | "done" | "panic" | "idle"
    ip,         \* index of the next statement of the loop at llvm_gen.rs:209
    labels,     \* BodyTranslator.labels: label name -> block
    temps,      \* BodyTranslator.temps: temp name -> slot (the alloca)
    blocks,     \* the function's basic blocks: block -> sequence of instructions
    cur,        \* the builder's position (position_at_end)
    last_was_jump, \* the flag of llvm_gen.rs:207
    prev,       \* the builder's position before the last statement visited:
                \* [cur |-> block, len |-> instructions in it]
    \* ---- Translate::translate (llvm_gen.rs) ----
    procs,      \* r.procs: the procedures of the LIR root
    mpc,        \* position of Translate::translate: "run" | "done" | "idle"
    funs,       \* `funs`: the function init_proc returned for each procedure
    module,     \* the functions of the llvm::Module, in add_function order
    mi          \* procedures the second loop (llvm_gen.rs:87) has finished

varsLift == <<root, pc, cc, defs, decls, fresh>>
varsSubst == <<sub_e, sub_s, sub_r>>
varsEmit == <<body, params, epc, ip, labels, temps, blocks, cur, last_was_jump, prev>>
varsModule == <<procs, mpc, funs, module, mi>>
vars == <<varsLift, varsSubst, varsEmit, varsModule>>

(***************************************************************************)
(* Names (crate::common::names).                                           *)
(***************************************************************************)
\* Name::new(s): the same string gives the same name.
NameNew(s) == <<s, 0>>
\* Name::fresh(prefix): unique; n is the value of the process-wide counter.
NameFresh(prefix, n) == <<prefix, n>>

(***************************************************************************)
(* HIR types (trees.rs).                                                   *)
(***************************************************************************)
TI32 == [tag |-> "I32"]
TBox == [tag |-> "Box"]
TStruct(fields) == [tag |-> "Struct", fields |-> fields]
TFun(ret, args) == [tag |-> "Fun", ret |-> ret, args |-> args]
Param(name, ty) == [ty |-> ty, name |-> name]
Field(param, exp) == [param |-> param, exp |-> exp]

(***************************************************************************)
(* The sub-trees of each variant, in the order the source evaluates them.  *)
(* "one" is a Box<Exp> or Box<Stm>, "many" a Vec<Exp> or Vec<Stm>,         *)
(* "fields" a Vec<Field> (the sub-tree is the field's exp).                *)
(***************************************************************************)
Slots(tag) ==
    CASE tag = "NewArray"    -> << <<"length", "one">> >>
      [] tag = "ArrayLit"    -> << <<"exps", "many">> >>
      [] tag = "ArrayLoad"   -> << <<"array", "one">>, <<"index", "one">> >>
      [] tag = "ArrayLength" -> << <<"array", "one">> >>
      [] tag = "Lit"         -> << >>
      [] tag = "Call"        -> << <<"args", "many">> >>
      [] tag = "Var"         -> << >>
      [] tag = "Binary"      -> << <<"e1", "one">>, <<"e2", "one">> >>
      [] tag = "Unary"       -> << <<"exp", "one">> >>
      [] tag = "Seq"         -> << <<"body", "one">>, <<"exp", "one">> >>
      [] tag = "Let"         -> << <<"inits", "fields">>, <<"body", "one">> >>
      [] tag = "Lambda"      -> << <<"body", "one">> >>
      [] tag = "LambdaCC"    -> << <<"body", "one">> >>
      [] tag = "Apply"       -> << <<"fun", "one">>, <<"args", "many">> >>
      [] tag = "ApplyCC"     -> << <<"fun", "one">>, <<"args", "many">> >>
      [] tag = "StructLit"   -> << <<"fields", "fields">> >>
      [] tag = "StructLoad"  -> << <<"base", "one">> >>
      [] tag = "Box"         -> << <<"exp", "one">> >>
      [] tag = "Unbox"       -> << <<"exp", "one">> >>
      [] tag = "Cast"        -> << <<"exp", "one">> >>
      \* statements
      [] tag = "IfElse"      -> << <<"cond", "one">>, <<"if_true", "one">>, <<"if_false", "one">> >>
      [] tag = "IfThen"      -> << <<"cond", "one">>, <<"if_true", "one">> >>
      [] tag = "While"       -> << <<"cond", "one">>, <<"body", "one">> >>
      [] tag = "Return"      -> << <<"exp", "one">> >>
      [] tag = "Block"       -> << <<"body", "many">> >>
      [] tag = "Eval"        -> << <<"exp", "one">> >>
      [] tag = "Assign"      -> << <<"rhs", "one">> >>
      [] tag = "ArrayAssign" -> << <<"array", "one">>, <<"index", "one">>, <<"value", "one">> >>
      [] tag = "StructAssign" -> << <<"base", "one">>, <<"value", "one">> >>

RECURSIVE kidsIn(_, _)
kidsIn(e, sl) ==
    IF sl = << >> THEN << >>
    ELSE LET f == Head(sl)[1]
             k == Head(sl)[2]
             mine == CASE k = "one"    -> << e[f] >>
                       [] k = "many"   -> e[f]
                       [] k = "fields" -> [j \in 1..Len(e[f]) |-> e[f][j].exp]
         IN mine \o kidsIn(e, Tail(sl))

\* The sub-trees of e, left to right.
kids(e) == kidsIn(e, Slots(e.tag))

RECURSIVE putIn(_, _, _)
putIn(e, sl, ks) ==
    IF sl = << >> THEN e
    ELSE LET f == Head(sl)[1]
             k == Head(sl)[2]
             cnt == IF k = "one" THEN 1 ELSE Len(e[f])
             mine == SubSeq(ks, 1, cnt)
             v == CASE k = "one"    -> mine[1]
                    [] k = "many"   -> mine
                    [] k = "fields" -> [j \in 1..cnt |-> Field(e[f][j].param, mine[j])]
         IN putIn([e EXCEPT ![f] = v], Tail(sl), SubSeq(ks, cnt + 1, Len(ks)))

\* e rebuilt with its sub-trees replaced by ks: every other field is cloned.
rebuild(e, ks) == putIn(e, Slots(e.tag), ks)

\* The names a Vec<Param> or Vec<Field> binds.
paramNames(ps) == {ps[j].name : j \in 1..Len(ps)}
initNames(inits) == {inits[j].param.name : j \in 1..Len(inits)}

(***************************************************************************)
(* Free variables: impl FV for Stm, impl FV for Exp.                       *)
(***************************************************************************)
RECURSIVE fv(_)

\* impl FV for Vec<A>
fvVec(es) == UNION {fv(es[j]) : j \in 1..Len(es)}

\* Mutant: the assigned name is not counted.
fvAssign_RhsOnly(s) == fv(s.rhs)

\* Stm::Assign: rhs.fv().insert(*lhs)
fvAssign(s) == fv(s.rhs) \cup {s.lhs}

\* Mutant: the names a Let binds are bound in its initialisers too (letrec).
fvLet_Letrec(e) ==
    LET p == initNames(e.inits)
        s == {x \in fv(e.body) : x \notin p}
    IN s \cup (UNION {fv(e.inits[j].exp) : j \in 1..Len(e.inits)} \ p)

\* Exp::Let
fvLet(e) ==
    LET p == initNames(e.inits)
        s == {x \in fv(e.body) : x \notin p}
    IN s \cup UNION {fv(e.inits[j].exp) : j \in 1..Len(e.inits)}

\* Exp::Lambda
fvLambda(e) ==
    LET p == paramNames(e.params)
    IN {x \in fv(e.body) : x \notin p}

fv(e) ==
    CASE e.tag = "Lit"    -> {}
      [] e.tag = "Var"    -> {e.name}
      [] e.tag = "Assign" -> fvAssign(e)
      [] e.tag = "Let"    -> fvLet(e)
      [] e.tag = "Lambda" -> fvLambda(e)
      [] OTHER            -> fvVec(kids(e))

(***************************************************************************)
(* Substitution: impl Substitute for hircc::Exp, hircc::Stm, hircc::Field, *)
(* Box<A> and Vec<A>.  A Subst is a function from names to HIR/CC trees.   *)
(***************************************************************************)
\* HashMap::remove of every name of ns, on a clone of s.
removeAll(s, ns) == [x \in (DOMAIN s) \ ns |-> s[x]]

RECURSIVE subst(_, _)

\* impl Substitute for Vec<A>
substVec(es, s) == [j \in 1..Len(es) |-> subst(es[j], s)]

\* hircc::Exp::Var
substVar(e, s) == IF e.name \in DOMAIN s THEN s[e.name] ELSE e

\* Mutant: the body of a Let is substituted with the full substitution.
substLet_NoShadow(e, s) ==
    LET s2 == s
    IN [e EXCEPT !.inits = [j \in 1..Len(e.inits) |->
                               Field(e.inits[j].param, subst(e.inits[j].exp, s))],
                 !.body = subst(e.body, s2)]

\* hircc::Exp::Let: the initialisers under s, the body under s minus the bound names.
substLet(e, s) ==
    LET s2 == removeAll(s, initNames(e.inits))
    IN [e EXCEPT !.inits = [j \in 1..Len(e.inits) |->
                               Field(e.inits[j].param, subst(e.inits[j].exp, s))],
                 !.body = subst(e.body, s2)]

\* hircc::Exp::LambdaCC
substLambdaCC(e, s) ==
    LET s2 == removeAll(s, {e.env_param.name} \cup paramNames(e.params))
    IN [e EXCEPT !.body = subst(e.body, s2)]

\* hircc::Stm::Assign: lhs is copied, rhs substituted.
substAssign(e, s) == [e EXCEPT !.rhs = subst(e.rhs, s)]

subst(e, s) ==
    CASE e.tag = "Var"      -> substVar(e, s)
      [] e.tag = "Let"      -> substLet(e, s)
      [] e.tag = "LambdaCC" -> substLambdaCC(e, s)
      [] e.tag = "Assign"   -> substAssign(e, s)
      [] OTHER              -> rebuild(e, substVec(kids(e), s))

(***************************************************************************)
(* Closure conversion: impl CC<hircc::Exp> for Exp, CC<hircc::Stm> for Stm.*)
(* convert(e, n) is e.convert() run with the name counter at n; it gives   *)
(* the converted tree and the counter afterwards.                          *)
(***************************************************************************)
\* The order in which a HashTrieSet is iterated: fixed for a given set.
RECURSIVE iter(_)
iter(S) ==
    IF S = {} THEN << >>
    ELSE LET x == CHOOSE y \in S : TRUE
         IN << x >> \o iter(S \ {x})

ExternalEnvT == TStruct(<< >>)

RECURSIVE convert(_, _)

RECURSIVE convertVec(_, _)
convertVec(es, n) ==
    IF es = << >> THEN [exps |-> << >>, n |-> n]
    ELSE LET h == convert(Head(es), n)
             t == convertVec(Tail(es), h.n)
         IN [exps |-> << h.exp >> \o t.exps, n |-> t.n]

\* Mutant: the captured set is taken from the body, so the parameters are captured too.
convertLambda_BodyFV(e, n) ==
    LET env == NameFresh("env", n)
        vars_ == iter(fv(e.body))
        env_params == [j \in 1..Len(vars_) |-> Param(vars_[j], TBox)]
        env_fields == [j \in 1..Len(vars_) |->
                          Field(Param(vars_[j], TBox),
                                [tag |-> "Var", name |-> vars_[j], ty |-> TBox])]
        internal_env_type == TStruct(env_params)
        arg_types == [j \in 1..Len(e.params) |-> e.params[j].ty] \o << ExternalEnvT >>
        fun_type == TFun(e.ret_type, arg_types)
        s == [x \in {vars_[j] : j \in 1..Len(vars_)} |->
                 [tag |-> "StructLoad", ty |-> internal_env_type,
                  base |-> [tag |-> "Var", name |-> env, ty |-> internal_env_type],
                  field |-> x]]
        b == convert(e.body, n + 1)
        cc_body == subst(b.exp, s)
        fun_field == Param(NameNew("fun"), fun_type)
        env_field == Param(NameNew("env"), ExternalEnvT)
    IN [exp |-> [tag |-> "StructLit", fields |-> <<
                   Field(fun_field,
                         [tag |-> "LambdaCC", ret_type |-> e.ret_type,
                          env_param |-> Param(env, internal_env_type),
                          params |-> e.params, body |-> cc_body]),
                   Field(env_field,
                         [tag |-> "Cast", ty |-> ExternalEnvT,
                          exp |-> [tag |-> "StructLit", fields |-> env_fields]]) >>],
        n |-> b.n]

\* Mutant: the substitution is built and never applied to the body.
convertLambda_NoSubst(e, n) ==
    LET env == NameFresh("env", n)
        vars_ == iter(fv(e))
        env_params == [j \in 1..Len(vars_) |-> Param(vars_[j], TBox)]
        env_fields == [j \in 1..Len(vars_) |->
                          Field(Param(vars_[j], TBox),
                                [tag |-> "Var", name |-> vars_[j], ty |-> TBox])]
        internal_env_type == TStruct(env_params)
        arg_types == [j \in 1..Len(e.params) |-> e.params[j].ty] \o << ExternalEnvT >>
        fun_type == TFun(e.ret_type, arg_types)
        s == [x \in {vars_[j] : j \in 1..Len(vars_)} |->
                 [tag |-> "StructLoad", ty |-> internal_env_type,
                  base |-> [tag |-> "Var", name |-> env, ty |-> internal_env_type],
                  field |-> x]]
        b == convert(e.body, n + 1)
        cc_body == b.exp
        fun_field == Param(NameNew("fun"), fun_type)
        env_field == Param(NameNew("env"), ExternalEnvT)
    IN [exp |-> [tag |-> "StructLit", fields |-> <<
                   Field(fun_field,
                         [tag |-> "LambdaCC", ret_type |-> e.ret_type,
                          env_param |-> Param(env, internal_env_type),
                          params |-> e.params, body |-> cc_body]),
                   Field(env_field,
                         [tag |-> "Cast", ty |-> ExternalEnvT,
                          exp |-> [tag |-> "StructLit", fields |-> env_fields]]) >>],
        n |-> b.n]

\* Mutant: the env literal lists the captured variables in the opposite order.
convertLambda_RevEnv(e, n) ==
    LET env == NameFresh("env", n)
        vars_ == iter(fv(e))
        env_params == [j \in 1..Len(vars_) |-> Param(vars_[j], TBox)]
        env_fields == [j \in 1..Len(vars_) |->
                          Field(Param(vars_[Len(vars_) + 1 - j], TBox),
                                [tag |-> "Var", name |-> vars_[Len(vars_) + 1 - j], ty |-> TBox])]
        internal_env_type == TStruct(env_params)
        arg_types == [j \in 1..Len(e.params) |-> e.params[j].ty] \o << ExternalEnvT >>
        fun_type == TFun(e.ret_type, arg_types)
        s == [x \in {vars_[j] : j \in 1..Len(vars_)} |->
                 [tag |-> "StructLoad", ty |-> internal_env_type,
                  base |-> [tag |-> "Var", name |-> env, ty |-> internal_env_type],
                  field |-> x]]
        b == convert(e.body, n + 1)
        cc_body == subst(b.exp, s)
        fun_field == Param(NameNew("fun"), fun_type)
        env_field == Param(NameNew("env"), ExternalEnvT)
    IN [exp |-> [tag |-> "StructLit", fields |-> <<
                   Field(fun_field,
                         [tag |-> "LambdaCC", ret_type |-> e.ret_type,
                          env_param |-> Param(env, internal_env_type),
                          params |-> e.params, body |-> cc_body]),
                   Field(env_field,
                         [tag |-> "Cast", ty |-> ExternalEnvT,
                          exp |-> [tag |-> "StructLit", fields |-> env_fields]]) >>],
        n |-> b.n]

\* Exp::Lambda
convertLambda(e, n) ==
    LET env == NameFresh("env", n)
        vars_ == iter(fv(e))
        env_params == [j \in 1..Len(vars_) |-> Param(vars_[j], TBox)]
        env_fields == [j \in 1..Len(vars_) |->
                          Field(Param(vars_[j], TBox),
                                [tag |-> "Var", name |-> vars_[j], ty |-> TBox])]
        internal_env_type == TStruct(env_params)
        arg_types == [j \in 1..Len(e.params) |-> e.params[j].ty] \o << ExternalEnvT >>
        fun_type == TFun(e.ret_type, arg_types)
        s == [x \in {vars_[j] : j \in 1..Len(vars_)} |->
                 [tag |-> "StructLoad", ty |-> internal_env_type,
                  base |-> [tag |-> "Var", name |-> env, ty |-> internal_env_type],
                  field |-> x]]
        b == convert(e.body, n + 1)
        cc_body == subst(b.exp, s)
        fun_field == Param(NameNew("fun"), fun_type)
        env_field == Param(NameNew("env"), ExternalEnvT)
    IN [exp |-> [tag |-> "StructLit", fields |-> <<
                   Field(fun_field,
                         [tag |-> "LambdaCC", ret_type |-> e.ret_type,
                          env_param |-> Param(env, internal_env_type),
                          params |-> e.params, body |-> cc_body]),
                   Field(env_field,
                         [tag |-> "Cast", ty |-> ExternalEnvT,
                          exp |-> [tag |-> "StructLit", fields |-> env_fields]]) >>],
        n |-> b.n]

\* Exp::Apply
convertApply(e, n) ==
    LET f == convert(e.fun, n)
        a == convertVec(e.args, f.n)
    IN [exp |-> [tag |-> "ApplyCC", fun_type |-> e.fun_type, fun |-> f.exp, args |-> a.exps],
        n |-> a.n]

convert(e, n) ==
    CASE e.tag = "Lambda" -> convertLambda(e, n)
      [] e.tag = "Apply"  -> convertApply(e, n)
      [] OTHER            -> LET r == convertVec(kids(e), n)
                             IN [exp |-> rebuild(e, r.exps), n |-> r.n]

(***************************************************************************)
(* Lambda lifting: impl LL<Exp> for hircc::Exp, LL<Stm> for hircc::Stm.    *)
(* lift(e, d, n) is e.lift(&mut d) run with the name counter at n; ok is   *)
(* FALSE when it panicked.                                                 *)
(***************************************************************************)
RECURSIVE lift(_, _, _)

RECURSIVE liftVec(_, _, _)
liftVec(es, d, n) ==
    IF es = << >> THEN [exps |-> << >>, decls |-> d, n |-> n, ok |-> TRUE]
    ELSE LET h == lift(Head(es), d, n)
         IN IF ~h.ok THEN [exps |-> << >>, decls |-> h.decls, n |-> h.n, ok |-> FALSE]
            ELSE LET t == liftVec(Tail(es), h.decls, h.n)
                 IN [exps |-> << h.exp >> \o t.exps, decls |-> t.decls, n |-> t.n, ok |-> t.ok]

\* Mutant: the hoisted function does not take the environment pointer.
liftLambdaCC_NoEnvParam(e, d, n) ==
    LET f == NameFresh("lifted", n)
        env_param_name == NameFresh("env", n + 1)
        external_env_type == TStruct(<< >>)
        def_params == e.params
        args == [j \in 1..Len(e.params) |-> e.params[j].ty] \o << external_env_type >>
        fun_type == TFun(e.ret_type, args)
        lifted_body == lift(e.body, d, n + 2)
        env_ptr == [tag |-> "Var", ty |-> external_env_type, name |-> env_param_name]
        cast == [tag |-> "Cast", ty |-> e.env_param.ty, exp |-> env_ptr]
        exp == [tag |-> "Let", inits |-> << Field(e.env_param, cast) >>,
                body |-> lifted_body.exp]
        fundef == [tag |-> "FunDef", ret_type |-> e.ret_type, name |-> f,
                   params |-> def_params, body |-> exp]
    IN IF ~lifted_body.ok
       THEN [exp |-> e, decls |-> lifted_body.decls, n |-> lifted_body.n, ok |-> FALSE]
       ELSE [exp |-> [tag |-> "Var", name |-> f, ty |-> fun_type],
             decls |-> Append(lifted_body.decls, fundef),
             n |-> lifted_body.n, ok |-> TRUE]

\* Mutant: the function is left in place as a Lambda instead of being hoisted.
liftLambdaCC_Unhoisted(e, d, n) ==
    LET f == NameFresh("lifted", n)
        env_param_name == NameFresh("env", n + 1)
        external_env_type == TStruct(<< >>)
        def_params == e.params \o << Param(env_param_name, external_env_type) >>
        args == [j \in 1..Len(e.params) |-> e.params[j].ty] \o << external_env_type >>
        fun_type == TFun(e.ret_type, args)
        lifted_body == lift(e.body, d, n + 2)
        env_ptr == [tag |-> "Var", ty |-> external_env_type, name |-> env_param_name]
        cast == [tag |-> "Cast", ty |-> e.env_param.ty, exp |-> env_ptr]
        exp == [tag |-> "Let", inits |-> << Field(e.env_param, cast) >>,
                body |-> lifted_body.exp]
        fundef == [tag |-> "FunDef", ret_type |-> e.ret_type, name |-> f,
                   params |-> def_params, body |-> exp]
    IN IF ~lifted_body.ok
       THEN [exp |-> e, decls |-> lifted_body.decls, n |-> lifted_body.n, ok |-> FALSE]
       ELSE [exp |-> [tag |-> "Lambda", ret_type |-> e.ret_type, params |-> def_params,
                      body |-> exp],
             decls |-> lifted_body.decls,
             n |-> lifted_body.n, ok |-> TRUE]

\* Mutant: the function of a lambda is declared before those of the lambdas
\* nested in its body.
liftLambdaCC_Prepend(e, d, n) ==
    LET f == NameFresh("lifted", n)
        env_param_name == NameFresh("env", n + 1)
        external_env_type == TStruct(<< >>)
        def_params == e.params \o << Param(env_param_name, external_env_type) >>
        args == [j \in 1..Len(e.params) |-> e.params[j].ty] \o << external_env_type >>
        fun_type == TFun(e.ret_type, args)
        lifted_body == lift(e.body, d, n + 2)
        env_ptr == [tag |-> "Var", ty |-> external_env_type, name |-> env_param_name]
        cast == [tag |-> "Cast", ty |-> e.env_param.ty, exp |-> env_ptr]
        exp == [tag |-> "Let", inits |-> << Field(e.env_param, cast) >>,
                body |-> lifted_body.exp]
        fundef == [tag |-> "FunDef", ret_type |-> e.ret_type, name |-> f,
                   params |-> def_params, body |-> exp]
    IN IF ~lifted_body.ok
       THEN [exp |-> e, decls |-> lifted_body.decls, n |-> lifted_body.n, ok |-> FALSE]
       ELSE [exp |-> [tag |-> "Var", name |-> f, ty |-> fun_type],
             decls |-> d \o << fundef >>
                         \o SubSeq(lifted_body.decls, Len(d) + 1, Len(lifted_body.decls)),
             n |-> lifted_body.n, ok |-> TRUE]

\* hircc::Exp::LambdaCC
liftLambdaCC(e, d, n) ==
    LET f == NameFresh("lifted", n)
        env_param_name == NameFresh("env", n + 1)
        external_env_type == TStruct(<< >>)
        def_params == e.params \o << Param(env_param_name, external_env_type) >>
        args == [j \in 1..Len(e.params) |-> e.params[j].ty] \o << external_env_type >>
        fun_type == TFun(e.ret_type, args)
        lifted_body == lift(e.body, d, n + 2)
        env_ptr == [tag |-> "Var", ty |-> external_env_type, name |-> env_param_name]
        cast == [tag |-> "Cast", ty |-> e.env_param.ty, exp |-> env_ptr]
        exp == [tag |-> "Let", inits |-> << Field(e.env_param, cast) >>,
                body |-> lifted_body.exp]
        fundef == [tag |-> "FunDef", ret_type |-> e.ret_type, name |-> f,
                   params |-> def_params, body |-> exp]
    IN IF ~lifted_body.ok
       THEN [exp |-> e, decls |-> lifted_body.decls, n |-> lifted_body.n, ok |-> FALSE]
       ELSE [exp |-> [tag |-> "Var", name |-> f, ty |-> fun_type],
             decls |-> Append(lifted_body.decls, fundef),
             n |-> lifted_body.n, ok |-> TRUE]

\* Mutant: the callee is read from fun evaluated again, not from the bound closure.
liftApplyCC_Reeval(e, d, n) ==
    LET env_type == TStruct(<< >>)
        closure == NameFresh("closure", n)
        as == liftVec(e.args, d, n + 1)
        closure_type == TStruct(<< Param(NameNew("fun"), e.fun_type),
                                   Param(NameNew("env"), env_type) >>)
        closure_var == [tag |-> "Var", name |-> closure, ty |-> closure_type]
        closure_args == as.exps \o << [tag |-> "StructLoad", ty |-> closure_type,
                                       base |-> closure_var, field |-> NameNew("env")] >>
        is_fun == e.fun_type.tag = "Fun"
        cc_fun_type == TFun(e.fun_type.ret, e.fun_type.args \o << env_type >>)
        f == lift(e.fun, as.decls, as.n)
    IN IF ~as.ok THEN [exp |-> e, decls |-> as.decls, n |-> as.n, ok |-> FALSE]
       ELSE IF ~is_fun    \* panic!("ApplyCC type should be a function type")
       THEN [exp |-> e, decls |-> as.decls, n |-> as.n, ok |-> FALSE]
       ELSE IF ~f.ok THEN [exp |-> e, decls |-> f.decls, n |-> f.n, ok |-> FALSE]
       ELSE [exp |-> [tag |-> "Let",
                      inits |-> << Field(Param(closure, closure_type), f.exp) >>,
                      body |-> [tag |-> "Apply", fun_type |-> cc_fun_type,
                                fun |-> [tag |-> "StructLoad", ty |-> closure_type,
                                         base |-> f.exp, field |-> NameNew("fun")],
                                args |-> closure_args]],
             decls |-> f.decls, n |-> f.n, ok |-> TRUE]

\* Mutant: a fun_type that is not a Fun is passed on instead of panicking.
liftApplyCC_AnyType(e, d, n) ==
    LET env_type == TStruct(<< >>)
        closure == NameFresh("closure", n)
        as == liftVec(e.args, d, n + 1)
        closure_type == TStruct(<< Param(NameNew("fun"), e.fun_type),
                                   Param(NameNew("env"), env_type) >>)
        closure_var == [tag |-> "Var", name |-> closure, ty |-> closure_type]
        closure_args == as.exps \o << [tag |-> "StructLoad", ty |-> closure_type,
                                       base |-> closure_var, field |-> NameNew("env")] >>
        is_fun == e.fun_type.tag = "Fun"
        cc_fun_type == IF is_fun THEN TFun(e.fun_type.ret, e.fun_type.args \o << env_type >>)
                       ELSE e.fun_type
        f == lift(e.fun, as.decls, as.n)
    IN IF ~as.ok THEN [exp |-> e, decls |-> as.decls, n |-> as.n, ok |-> FALSE]
       ELSE IF ~f.ok THEN [exp |-> e, decls |-> f.decls, n |-> f.n, ok |-> FALSE]
       ELSE [exp |-> [tag |-> "Let",
                      inits |-> << Field(Param(closure, closure_type), f.exp) >>,
                      body |-> [tag |-> "Apply", fun_type |-> cc_fun_type,
                                fun |-> [tag |-> "StructLoad", ty |-> closure_type,
                                         base |-> closure_var, field |-> NameNew("fun")],
                                args |-> closure_args]],
             decls |-> f.decls, n |-> f.n, ok |-> TRUE]

\* hircc::Exp::ApplyCC
liftApplyCC(e, d, n) ==
    LET env_type == TStruct(<< >>)
        closure == NameFresh("closure", n)
        as == liftVec(e.args, d, n + 1)
        closure_type == TStruct(<< Param(NameNew("fun"), e.fun_type),
                                   Param(NameNew("env"), env_type) >>)
        closure_var == [tag |-> "Var", name |-> closure, ty |-> closure_type]
        closure_args == as.exps \o << [tag |-> "StructLoad", ty |-> closure_type,
                                       base |-> closure_var, field |-> NameNew("env")] >>
        is_fun == e.fun_type.tag = "Fun"
        cc_fun_type == TFun(e.fun_type.ret, e.fun_type.args \o << env_type >>)
        f == lift(e.fun, as.decls, as.n)
    IN IF ~as.ok THEN [exp |-> e, decls |-> as.decls, n |-> as.n, ok |-> FALSE]
       ELSE IF ~is_fun    \* panic!("ApplyCC type should be a function type")
       THEN [exp |-> e, decls |-> as.decls, n |-> as.n, ok |-> FALSE]
       ELSE IF ~f.ok THEN [exp |-> e, decls |-> f.decls, n |-> f.n, ok |-> FALSE]
       ELSE [exp |-> [tag |-> "Let",
                      inits |-> << Field(Param(closure, closure_type), f.exp) >>,
                      body |-> [tag |-> "Apply", fun_type |-> cc_fun_type,
                                fun |-> [tag |-> "StructLoad", ty |-> closure_type,
                                         base |-> closure_var, field |-> NameNew("fun")],
                                args |-> closure_args]],
             decls |-> f.decls, n |-> f.n, ok |-> TRUE]

lift(e, d, n) ==
    CASE e.tag = "LambdaCC" -> liftLambdaCC(e, d, n)
      [] e.tag = "ApplyCC"  -> liftApplyCC(e, d, n)
      [] OTHER              -> LET r == liftVec(kids(e), d, n)
                               IN [exp |-> IF r.ok THEN rebuild(e, r.exps) ELSE e,
                                   decls |-> r.decls, n |-> r.n, ok |-> r.ok]

(***************************************************************************)
(* Inputs: the HIR expressions of at most MaxNodes nodes over two user     *)
(* names, built from Var, Lit, Lambda, Let, Apply and Seq/Assign.          *)
(***************************************************************************)
MaxNodes == 5

NoTree == [tag |-> "None"]

UserNames == {NameNew("x"), NameNew("y")}
VarE(n) == [tag |-> "Var", name |-> n, ty |-> TI32]
LitE == [tag |-> "Lit", lit |-> [tag |-> "I32", value |-> 7]]
LambdaE(ps, b) == [tag |-> "Lambda", ret_type |-> TI32, params |-> ps, body |-> b]
LetE(n, i, b) == [tag |-> "Let", inits |-> << Field(Param(n, TI32), i) >>, body |-> b]
ApplyE(ft, f, a) == [tag |-> "Apply", fun_type |-> ft, fun |-> f, args |-> << a >>]
AssignS(n, r) == [tag |-> "Assign", ty |-> TI32, lhs |-> n, rhs |-> r]
SeqE(s, e) == [tag |-> "Seq", body |-> s, exp |-> e]

ParamLists == { << >>, << Param(NameNew("x"), TI32) >> }
\* The fun_type of an Apply: a function type, or (ill-formed input) not one.
FunTypes == { TFun(TI32, << TI32 >>), TI32 }

\* ExpsOf[k]: the expressions of exactly k nodes.
ExpsOf[k \in 1..(MaxNodes + 1)] ==
    IF k = 1 THEN {VarE(n) : n \in UserNames} \cup {LitE}
    ELSE {LambdaE(ps, b) : ps \in ParamLists, b \in ExpsOf[k - 1]}
         \cup UNION {{LetE(n, i, b) : n \in UserNames, i \in ExpsOf[a], b \in ExpsOf[k - 1 - a]}
                     : a \in 1..(k - 2)}
         \cup UNION {{ApplyE(ft, f, x) : ft \in FunTypes, f \in ExpsOf[a], x \in ExpsOf[k - 1 - a]}
                     : a \in 1..(k - 2)}
         \cup UNION {{SeqE(AssignS(n, r), e) : n \in UserNames, r \in ExpsOf[a], e \in ExpsOf[k - 2 - a]}
                     : a \in 1..(k - 3)}

Exps == UNION {ExpsOf[k] : k \in 1..MaxNodes}
SmallExps == ExpsOf[1] \cup ExpsOf[2]

VarDef(e) == [tag |-> "VarDef", ty |-> TI32, name |-> NameNew("v"), exp |-> e]
FunDef(e) == [tag |-> "FunDef", ret_type |-> TI32, name |-> NameNew("f"),
              params |-> << Param(NameNew("x"), TI32) >>, body |-> e]
ExternDef == [tag |-> "ExternDef", ret_type |-> TI32, name |-> NameNew("g"),
              params |-> << Param(NameNew("x"), TI32) >>]

Roots == {<< VarDef(e) >> : e \in Exps}
         \cup {<< FunDef(e1), ExternDef, VarDef(e2) >> : e1 \in SmallExps, e2 \in SmallExps}
         \cup {<< >>}

(***************************************************************************)
(* Lift::lift(root): one step per definition (its closure conversion, then *)
(* its lifting), then defs.append(&mut decls).                             *)
(***************************************************************************)
\* The expression of a VarDef or FunDef.
defExp(d) == IF d.tag = "VarDef" THEN d.exp ELSE d.body
withDefExp(d, e) == IF d.tag = "VarDef" THEN [d EXCEPT !.exp = e] ELSE [d EXCEPT !.body = e]

IdleSubst == sub_e = NoTree /\ sub_s = << >> /\ sub_r = NoTree
IdleModule == procs = << >> /\ mpc = "idle" /\ funs = << >> /\ module = << >> /\ mi = 0
IdleEmit ==
    /\ body = << >> /\ params = {} /\ epc = "idle" /\ ip = 0
    /\ labels = << >> /\ temps = << >> /\ blocks = << >>
    /\ cur = 0 /\ last_was_jump = FALSE /\ prev = [cur |-> 0, len |-> 0]
IdleLift ==
    /\ root = << >> /\ pc = "idle" /\ cc = NoTree
    /\ defs = << >> /\ decls = << >> /\ fresh = 1

InitLift ==
    /\ root \in Roots
    /\ pc = "loop"
    /\ cc = NoTree
    /\ defs = << >>
    /\ decls = << >>
    /\ fresh = 1
    /\ IdleSubst
    /\ IdleEmit
    /\ IdleModule

\* Def::lift, ExternDef arm: the definition is cloned.
LiftExtern ==
    /\ pc = "loop"
    /\ Len(defs) < Len(root)
    /\ root[Len(defs) + 1].tag = "ExternDef"
    /\ defs' = Append(defs, root[Len(defs) + 1])
    /\ cc' = NoTree
    /\ UNCHANGED <<root, pc, decls, fresh, varsSubst, varsEmit, varsModule>>

\* Def::lift, VarDef and FunDef arms, first half: exp.convert()
ConvertDef ==
    /\ pc = "loop"
    /\ Len(defs) < Len(root)
    /\ root[Len(defs) + 1].tag # "ExternDef"
    /\ LET r == convert(defExp(root[Len(defs) + 1]), fresh)
       IN /\ cc' = r.exp
          /\ fresh' = r.n
    /\ pc' = "lift"
    /\ UNCHANGED <<root, defs, decls, varsSubst, varsEmit, varsModule>>

\* Def::lift, VarDef and FunDef arms, second half: .lift(decls), and defs.push
LiftDef ==
    /\ pc = "lift"
    /\ LET r == lift(cc, decls, fresh)
       IN IF r.ok
          THEN /\ defs' = Append(defs, withDefExp(root[Len(defs) + 1], r.exp))
               /\ decls' = r.decls
               /\ fresh' = r.n
               /\ pc' = "loop"
          ELSE /\ pc' = "panic"
               /\ UNCHANGED <<defs, decls, fresh>>
    /\ UNCHANGED <<root, cc, varsSubst, varsEmit, varsModule>>

\* Mutant: the hoisted functions are placed before the definitions.
AppendDecls_Front ==
    /\ pc = "loop"
    /\ Len(defs) = Len(root)
    /\ defs' = decls \o defs
    /\ decls' = << >>
    /\ pc' = "done"
    /\ UNCHANGED <<root, cc, fresh, varsSubst, varsEmit, varsModule>>

\* defs.append(&mut decls); Root { defs }
AppendDecls ==
    /\ pc = "loop"
    /\ Len(defs) = Len(root)
    /\ defs' = defs \o decls
    /\ decls' = << >>
    /\ pc' = "done"
    /\ UNCHANGED <<root, cc, fresh, varsSubst, varsEmit, varsModule>>

NextLift == LiftExtern \/ ConvertDef \/ LiftDef \/ AppendDecls

SpecLift == InitLift /\ [][NextLift]_vars

(***************************************************************************)
(* Vocabulary of the properties.                                           *)
(***************************************************************************)
\* Every node of the tree e (e included).
RECURSIVE subtrees(_)
subtrees(e) == {e} \cup UNION {subtrees(kids(e)[j]) : j \in 1..Len(kids(e))}

RECURSIVE sumSeq(_)
sumSeq(s) == IF s = << >> THEN 0 ELSE Head(s) + sumSeq(Tail(s))

\* The number of nodes of e with the given tag.
RECURSIVE countTag(_, _)
countTag(e, tag) ==
    (IF e.tag = tag THEN 1 ELSE 0)
    + sumSeq([j \in 1..Len(kids(e)) |-> countTag(kids(e)[j], tag)])

\* The nodes of a definition (none for an ExternDef).
defNodes(d) == IF d.tag = "ExternDef" THEN {} ELSE subtrees(defExp(d))

\* fv on HIR/CC: the equations of fv, with LambdaCC binding its env
\* parameter and its parameters.
RECURSIVE fvCC(_)
fvCC(e) ==
    CASE e.tag = "Lit"      -> {}
      [] e.tag = "Var"      -> {e.name}
      [] e.tag = "Assign"   -> fvCC(e.rhs) \cup {e.lhs}
      [] e.tag = "Let"      -> (fvCC(e.body) \ initNames(e.inits))
                               \cup UNION {fvCC(e.inits[j].exp) : j \in 1..Len(e.inits)}
      [] e.tag = "LambdaCC" -> fvCC(e.body) \ ({e.env_param.name} \cup paramNames(e.params))
      [] e.tag = "Lambda"   -> fvCC(e.body) \ paramNames(e.params)
      [] OTHER              -> UNION {fvCC(kids(e)[j]) : j \in 1..Len(kids(e))}

\* The definition of the root that ConvertDef converted last.
curDef == root[Len(defs) + 1]

HasNestedLambda(e) ==
    \E l \in subtrees(e) : l.tag = "Lambda" /\ countTag(l.body, "Lambda") > 0

(***************************************************************************)
(* C1: the root Lift::lift returns holds no Lambda node (nor a LambdaCC),  *)
(* in the rewritten definitions and in the hoisted functions alike.        *)
(***************************************************************************)
C1_NoLambdaAfterLift ==
    pc = "done" =>
        \A j \in 1..Len(defs) :
            \A nd \in defNodes(defs[j]) : nd.tag \notin {"Lambda", "LambdaCC"}

\* A root with a lambda nested in a lambda has been lifted to the end.
C1_Witness ==
    /\ pc = "done"
    /\ Len(root) = 1
    /\ HasNestedLambda(defExp(root[1]))
    /\ Len(defs) >= 3

(***************************************************************************)
(* C3: closure conversion preserves the free variables:                    *)
(* fv(convert(e)) = fv(e) for the expression of every converted definition.*)
(***************************************************************************)
C3_ConvertPreservesFV ==
    pc = "lift" => fvCC(cc) = fv(defExp(curDef))

\* A lambda that captures a variable has been converted.
C3_Witness ==
    /\ pc = "lift"
    /\ defExp(curDef).tag = "Lambda"
    /\ fv(defExp(curDef)) # {}
    /\ countTag(cc, "LambdaCC") = 1

(***************************************************************************)
(* Substitution applied to drawn inputs: the HIR/CC images of the          *)
(* expressions of at most MaxSubstNodes nodes, and the substitutions over  *)
(* the user names.                                                         *)
(***************************************************************************)
MaxSubstNodes == 4

SubstInputs == {convert(e, 1).exp : e \in UNION {ExpsOf[k] : k \in 1..MaxSubstNodes}}

\* An env load as closure conversion builds it (the env name is not a user name).
EnvLoad(n) ==
    LET ty == TStruct(<< Param(n, TBox) >>)
    IN [tag |-> "StructLoad", ty |-> ty,
        base |-> [tag |-> "Var", name |-> NameFresh("env", 100), ty |-> ty],
        field |-> n]

SubstVals == {LitE, VarE(NameNew("z")), EnvLoad(NameNew("x"))}
Substs == UNION {[D -> SubstVals] : D \in SUBSET UserNames}

InitSubst ==
    /\ sub_e \in SubstInputs
    /\ sub_s \in Substs
    /\ sub_r = NoTree
    /\ IdleLift
    /\ IdleEmit
    /\ IdleModule

\* sub_e.subst(&sub_s)
ApplySubst ==
    /\ sub_e # NoTree
    /\ sub_r = NoTree
    /\ sub_r' = subst(sub_e, sub_s)
    /\ UNCHANGED <<sub_e, sub_s, varsLift, varsEmit, varsModule>>

NextSubst == ApplySubst

SpecSubst == InitSubst /\ [][NextSubst]_vars

(***************************************************************************)
(* C4: fv(subst(e, s)) is contained in (fv(e) \ dom(s)) together with the  *)
(* free variables of the expressions substituted for the free names of e.  *)
(***************************************************************************)
C4_SubstFV ==
    sub_r # NoTree =>
        fvCC(sub_r) \subseteq
            (fvCC(sub_e) \ DOMAIN sub_s)
            \cup UNION {fvCC(sub_s[x]) : x \in fvCC(sub_e) \cap DOMAIN sub_s}

(***************************************************************************)
(* More vocabulary: outermost nodes, occurrences, names.                   *)
(***************************************************************************)
RECURSIVE concatAll(_)
concatAll(ss) == IF ss = << >> THEN << >> ELSE Head(ss) \o concatAll(Tail(ss))

\* The outermost nodes of e with the given tag, left to right.
RECURSIVE outer(_, _)
outer(e, tag) ==
    IF e.tag = tag THEN << e >>
    ELSE concatAll([j \in 1..Len(kids(e)) |-> outer(kids(e)[j], tag)])

\* A closure record {fun, env} as closure conversion builds it.
IsClosureRecord(c) ==
    /\ c.tag = "StructLit"
    /\ Len(c.fields) = 2
    /\ c.fields[1].exp.tag = "LambdaCC"

\* The outermost closure records of c, left to right.
RECURSIVE outerRecords(_)
outerRecords(c) ==
    IF IsClosureRecord(c) THEN << c >>
    ELSE concatAll([j \in 1..Len(kids(c)) |-> outerRecords(kids(c)[j])])

\* The number of free occurrences of Var n in the HIR/CC tree e.
RECURSIVE freeVarOcc(_, _)
freeVarOcc(e, n) ==
    CASE e.tag = "Var"      -> IF e.name = n THEN 1 ELSE 0
      [] e.tag = "Let"      ->
            sumSeq([j \in 1..Len(e.inits) |-> freeVarOcc(e.inits[j].exp, n)])
            + (IF n \in initNames(e.inits) THEN 0 ELSE freeVarOcc(e.body, n))
      [] e.tag = "LambdaCC" ->
            IF n \in {e.env_param.name} \cup paramNames(e.params) THEN 0
            ELSE freeVarOcc(e.body, n)
      [] OTHER              -> sumSeq([j \in 1..Len(kids(e)) |-> freeVarOcc(kids(e)[j], n)])

\* The number of nodes of e equal to nd.
RECURSIVE countNode(_, _)
countNode(e, nd) ==
    (IF e = nd THEN 1 ELSE 0)
    + sumSeq([j \in 1..Len(kids(e)) |-> countNode(kids(e)[j], nd)])

\* The names a tree uses or binds.
namesIn(e) ==
    UNION {CASE nd.tag = "Var"      -> {nd.name}
             [] nd.tag = "Assign"   -> {nd.lhs}
             [] nd.tag = "Let"      -> initNames(nd.inits)
             [] nd.tag = "LambdaCC" -> {nd.env_param.name} \cup paramNames(nd.params)
             [] nd.tag = "Lambda"   -> paramNames(nd.params)
             [] OTHER               -> {}
           : nd \in subtrees(e)}

IsFresh(n) == n[2] > 0

paramTypes(ps) == [j \in 1..Len(ps) |-> ps[j].ty]

\* Scenario inputs.
S1_Lambda == LambdaE(<< Param(NameNew("x"), TI32) >>, VarE(NameNew("x")))
S2_Let == LetE(NameNew("y"), LitE, LambdaE(<< >>, VarE(NameNew("y"))))

(***************************************************************************)
(* C6: lifting a LambdaCC {ret, env_param, params, body} appends exactly   *)
(* one FunDef {ret, f, params ++ [env_ptr : Struct{}],                     *)
(*   Let {[env_param |-> Cast {env_param.ty, Var {env_ptr, Struct{}}}],    *)
(*        lifted(body)}} with f and env_ptr fresh, and replaces the node   *)
(* by Var {f, Fun(ret, types of params ++ [Struct{}])}.  Scenario S1: the  *)
(* capture-free Lambda {I32, [(x, I32)], Var x} becomes the record         *)
(* {fun |-> Var f, env |-> Cast {Struct{}, StructLit{}}} with one new      *)
(* function of parameters [x : I32, env_ptr : Struct{}].                   *)
(***************************************************************************)
\* d is the function hoisted for the LambdaCC l; out are the trees the step produced.
HoistedFrom(d, l, out) ==
    LET env_ptr == d.params[Len(d.params)]
    IN /\ d.tag = "FunDef"
       /\ d.ret_type = l.ret_type
       /\ d.params = l.params \o << Param(env_ptr.name, TStruct(<< >>)) >>
       /\ IsFresh(d.name) /\ IsFresh(env_ptr.name)
       /\ d.name # env_ptr.name
       /\ {d.name, env_ptr.name} \cap (namesIn(l) \cup UserNames) = {}
       /\ d.body.tag = "Let"
       /\ d.body.inits = << Field(l.env_param,
                                  [tag |-> "Cast", ty |-> l.env_param.ty,
                                   exp |-> [tag |-> "Var", ty |-> TStruct(<< >>),
                                            name |-> env_ptr.name]]) >>
       /\ \E n0 \in 1..fresh' : d.body.body = lift(l.body, << >>, n0).exp
       /\ sumSeq([j \in 1..Len(out) |->
                    countNode(out[j],
                              [tag |-> "Var", name |-> d.name,
                               ty |-> TFun(l.ret_type,
                                           paramTypes(l.params) \o << TStruct(<< >>) >>)])]) = 1

C6_Step ==
    (pc = "lift" /\ pc' = "loop") =>
        LET new == SubSeq(decls', Len(decls) + 1, Len(decls'))
            out == << defExp(defs'[Len(defs')]) >> \o [j \in 1..Len(new) |-> new[j].body]
            ls == {nd \in subtrees(cc) : nd.tag = "LambdaCC"}
        IN /\ SubSeq(decls', 1, Len(decls)) = decls
           /\ Len(new) = countTag(cc, "LambdaCC")
           /\ \A l \in ls :
                 Cardinality({j \in 1..Len(new) : HoistedFrom(new[j], l, out)}) = 1
           /\ \A j, k \in 1..Len(decls') :
                 j # k => decls'[j].name # decls'[k].name
           /\ root = << VarDef(S1_Lambda) >> =>
                 /\ Len(decls') = 1
                 /\ decls'[1].params = << Param(NameNew("x"), TI32),
                                          Param(decls'[1].params[2].name, TStruct(<< >>)) >>
                 /\ decls'[1].body.body = VarE(NameNew("x"))
                 /\ defs'[1].exp =
                      [tag |-> "StructLit", fields |-> <<
                         Field(Param(NameNew("fun"), TFun(TI32, << TI32, TStruct(<< >>) >>)),
                               [tag |-> "Var", name |-> decls'[1].name,
                                ty |-> TFun(TI32, << TI32, TStruct(<< >>) >>)]),
                         Field(Param(NameNew("env"), TStruct(<< >>)),
                               [tag |-> "Cast", ty |-> TStruct(<< >>),
                                exp |-> [tag |-> "StructLit", fields |-> << >>]]) >>]

C6_LiftLambdaCC == [][C6_Step]_vars

\* Scenario S1 has been lifted: one hoisted function.
C6_Witness ==
    /\ pc = "done"
    /\ root = << VarDef(S1_Lambda) >>
    /\ Len(defs) = 2
    /\ defs[2].tag = "FunDef"

(***************************************************************************)
(* C7: closure conversion of Lambda {ret, params, body} with captured set  *)
(* V = fv(Lambda) yields a closure record whose LambdaCC has an env        *)
(* parameter of type Struct {n : Box for n in V}, whose env field is       *)
(* Cast {Struct{}, StructLit {n |-> Var {n, Box} for n in V}}, and in      *)
(* whose body every free Var occurrence of a captured n has been replaced  *)
(* by StructLoad {EnvT, Var {env, EnvT}, n}.  Scenario S2: for             *)
(* Let {[(y, I32, 7)], Lambda {I32, [], Var y}} the env type is            *)
(* Struct {y : Box}, the lifted function has the parameters                *)
(* [env_ptr : Struct{}] and its body reads y through the env cast.         *)
(***************************************************************************)
\* r is the closure record of the lambda l.
ClosureOK(r, l) ==
    LET V == fv(l)
        L == r.fields[1].exp
        EnvT == L.env_param.ty
        env == L.env_param.name
        load(n) == [tag |-> "StructLoad", ty |-> EnvT,
                    base |-> [tag |-> "Var", name |-> env, ty |-> EnvT], field |-> n]
        b0 == convert(l.body, 1).exp
    IN /\ L.ret_type = l.ret_type
       /\ L.params = l.params
       /\ IsFresh(env)
       /\ EnvT.tag = "Struct"
       /\ Len(EnvT.fields) = Cardinality(V)
       /\ paramNames(EnvT.fields) = V
       /\ \A j \in 1..Len(EnvT.fields) : EnvT.fields[j].ty = TBox
       /\ r.fields[1].param = Param(NameNew("fun"),
                                    TFun(l.ret_type, paramTypes(l.params) \o << TStruct(<< >>) >>))
       /\ r.fields[2] =
            Field(Param(NameNew("env"), TStruct(<< >>)),
                  [tag |-> "Cast", ty |-> TStruct(<< >>),
                   exp |-> [tag |-> "StructLit",
                            fields |-> [j \in 1..Len(EnvT.fields) |->
                                          Field(EnvT.fields[j],
                                                [tag |-> "Var", name |-> EnvT.fields[j].name,
                                                 ty |-> TBox])]]])
       /\ \A n \in V :
            /\ freeVarOcc(L.body, n) = 0
            /\ countNode(L.body, load(n)) = freeVarOcc(b0, n)
       /\ \A nd \in subtrees(L.body) :
            (nd.tag = "StructLoad" /\ nd.base.tag = "Var" /\ nd.base.name = env)
                => nd \in {load(n) : n \in V}

C7_ConvertLambda ==
    /\ pc = "lift" =>
          LET ls == outer(defExp(curDef), "Lambda")
              rs == outerRecords(cc)
          IN /\ Len(ls) = Len(rs)
             /\ \A j \in 1..Len(ls) : ClosureOK(rs[j], ls[j])
    /\ (pc = "done" /\ root = << VarDef(S2_Let) >>) =>
          LET EnvT == TStruct(<< Param(NameNew("y"), TBox) >>)
              f == defs[2]
              env == f.body.inits[1].param.name
          IN /\ Len(defs) = 2
             /\ Len(f.params) = 1
             /\ f.params[1].ty = TStruct(<< >>)
             /\ f.body.inits = << Field(Param(env, EnvT),
                                        [tag |-> "Cast", ty |-> EnvT,
                                         exp |-> [tag |-> "Var", ty |-> TStruct(<< >>),
                                                  name |-> f.params[1].name]]) >>
             /\ f.body.body = [tag |-> "StructLoad", ty |-> EnvT,
                               base |-> [tag |-> "Var", name |-> env, ty |-> EnvT],
                               field |-> NameNew("y")]

\* Scenario S2 has been converted: a lambda capturing y, under the Let that binds y.
C7_Witness ==
    /\ pc = "lift"
    /\ root = << VarDef(S2_Let) >>
    /\ Len(outerRecords(cc)) = 1
    /\ fv(outer(defExp(curDef), "Lambda")[1]) = {NameNew("y")}

(***************************************************************************)
(* C8: lifting ApplyCC {fun_type, fun, args} produces                      *)
(* Let {[closure |-> lifted(fun)],                                         *)
(*      Apply {fun_type', closure.fun, lifted(args) ++ [closure.env]}}     *)
(* with closure fresh and fun_type' = fun_type with a trailing Struct{}    *)
(* argument; the lifted fun is evaluated once, as the Let initialiser, and *)
(* the callee and the trailing env argument read the bound variable.       *)
(***************************************************************************)
\* t is a Let as liftApplyCC builds it around the Apply a.
AppliedClosure(t, a) ==
    LET c == t.inits[1].param.name
        CT == t.inits[1].param.ty
        ft == CT.fields[1].ty
        cv == [tag |-> "Var", name |-> c, ty |-> CT]
    IN /\ t.tag = "Let"
       /\ t.body = a
       /\ Len(t.inits) = 1
       /\ IsFresh(c)
       /\ c \notin namesIn(t.inits[1].exp)
       /\ \A j \in 1..(Len(a.args) - 1) : c \notin namesIn(a.args[j])
       /\ CT = TStruct(<< Param(NameNew("fun"), ft), Param(NameNew("env"), TStruct(<< >>)) >>)
       /\ a.fun_type = TFun(ft.ret, ft.args \o << TStruct(<< >>) >>)
       /\ a.fun = [tag |-> "StructLoad", ty |-> CT, base |-> cv, field |-> NameNew("fun")]
       /\ Len(a.args) >= 1
       /\ a.args[Len(a.args)] =
            [tag |-> "StructLoad", ty |-> CT, base |-> cv, field |-> NameNew("env")]

C8_LiftApplyCC ==
    (pc = "loop" /\ cc # NoTree) =>
        LET out == defExp(defs[Len(defs)])
            all == subtrees(out) \cup UNION {subtrees(decls[j].body) : j \in 1..Len(decls)}
        IN /\ \A a \in all : a.tag = "Apply" =>
                 Cardinality({t \in all : AppliedClosure(t, a)}) = 1
           /\ \A a \in all : a.tag # "ApplyCC"
           /\ cc.tag = "ApplyCC" =>
                 /\ AppliedClosure(out, out.body)
                 /\ out.inits[1].param.ty.fields[1].ty = cc.fun_type
                 /\ \E n0 \in 1..fresh : out.inits[1].exp = lift(cc.fun, << >>, n0).exp
                 /\ Len(out.body.args) = Len(cc.args) + 1
                 /\ \A j \in 1..Len(cc.args) :
                       \E n0 \in 1..fresh : out.body.args[j] = lift(cc.args[j], << >>, n0).exp

\* An application of a lambda has been lifted.
C8_Witness ==
    /\ pc = "loop"
    /\ cc.tag = "ApplyCC"
    /\ IsClosureRecord(cc.fun)
    /\ Len(defs) = 1
    /\ defExp(defs[1]).tag = "Let"
    /\ defExp(defs[1]).body.tag = "Apply"

(***************************************************************************)
(* LIR -> LLVM emission (gen/llvm_gen.rs).                                 *)
(*                                                                         *)
(* An LLVM value is a record: a constant, an incoming parameter, a symbol  *)
(* of the module, or the result of the instruction with a given id (the    *)
(* number Name::fresh("t.llvm") handed out for it).  An instruction is a   *)
(* record with its opcode under "op".                                      *)
(***************************************************************************)
WORDSIZE == 8

LT(t) == [tag |-> t]
LLT(k) == [k |-> k]

\* Translate::to_type
RECURSIVE to_type(_)
to_type(ty) ==
    CASE ty.tag = "I1" -> LLT("i1")
      [] ty.tag = "I32" -> LLT("i32")
      [] ty.tag = "I64" -> LLT("i64")
      [] ty.tag = "F32" -> LLT("float")
      [] ty.tag = "F64" -> LLT("double")
      [] ty.tag = "Word" -> IF WORDSIZE = 8 THEN LLT("i64") ELSE LLT("i32")
      [] ty.tag = "Void" -> LLT("void")
      [] ty.tag = "Ptr" -> [k |-> "pointer", to |-> to_type(ty.ty)]
      [] ty.tag = "Array" ->
           [k |-> "structure",
            elems |-> <<to_type(LT("Word")), [k |-> "array", of |-> to_type(ty.ty), n |-> 0]>>]
      [] ty.tag = "Struct" ->
           [k |-> "structure", elems |-> [i \in 1..Len(ty.fields) |-> to_type(ty.fields[i])]]
      [] ty.tag = "Fun" ->
           [k |-> "function", ret |-> to_type(ty.ret),
            args |-> [i \in 1..Len(ty.args) |-> to_type(ty.args[i])]]

NoValue == [k |-> "none"]
Const(ty, value) == [k |-> "const", ty |-> ty, value |-> value]
InsnValue(id) == [k |-> "insn", id |-> id]

\* The BodyTranslator together with the builder and the function under
\* construction, as one value the helpers below hand on.  ok = FALSE after
\* unimplemented!() or unreachable!(): the process has panicked and nothing
\* more is emitted.
Translator ==
    [blocks |-> blocks, labels |-> labels, cur |-> cur, n |-> fresh, ok |-> TRUE]

panic(b) == [b EXCEPT !.ok = FALSE]

\* builder.<insn>(...) for an instruction without a result name
emit(b, insn) ==
    IF b.ok THEN [b EXCEPT !.blocks[b.cur] = Append(@, insn)] ELSE b

\* builder.<insn>(..., &self.fresh_name()): the instruction takes the next
\* fresh name; `insn` lacks only its id.
emitNamed(b, insn) ==
    IF b.ok
    THEN [b |-> [emit(b, [id |-> b.n] @@ insn) EXCEPT !.n = b.n + 1], v |-> InsnValue(b.n)]
    ELSE [b |-> b, v |-> NoValue]

\* to_value, Lit arms
to_value_lit(lit) ==
    CASE lit.tag = "I1" -> Const("i1", lit.value)
      [] lit.tag = "I32" -> Const("i32", lit.value)
      [] lit.tag = "I64" -> Const("i64", lit.value)
      [] lit.tag = "F32" -> Const("float", lit.value)
      [] lit.tag = "F64" -> Const("double", lit.value)
      [] lit.tag = "Sizeof" ->
           IF WORDSIZE = 4 THEN Const("i32", WORDSIZE) ELSE Const("i64", WORDSIZE)
      [] lit.tag = "ArrayBaseOffset" ->
           IF WORDSIZE = 4 THEN Const("i32", WORDSIZE) ELSE Const("i64", WORDSIZE)
      [] lit.tag = "ArrayLengthOffset" ->
           IF WORDSIZE = 4 THEN Const("i32", 0) ELSE Const("i64", 0)
      [] lit.tag = "StructFieldOffset" ->
           IF WORDSIZE = 4 THEN Const("i32", lit.field * WORDSIZE)
                           ELSE Const("i64", lit.field * WORDSIZE)

\* BodyTranslator::to_addr
to_addr(b, e) ==
    CASE e.tag = "Global" -> [b |-> b, v |-> [k |-> "global", name |-> e.name]]
      [] e.tag = "Function" -> [b |-> b, v |-> [k |-> "function", name |-> e.name]]
      [] e.tag = "Temp" ->
           IF e.name \in DOMAIN temps
           THEN [b |-> b, v |-> temps[e.name]]
           ELSE [b |-> panic(b), v |-> NoValue]
      [] e.tag = "Lit" -> [b |-> b, v |-> to_value_lit(e.lit)]

\* to_value with the parameter table ignored: every Temp is read through a
\* slot.
to_value_SlotParam(b, e) ==
    CASE e.tag \in {"Global", "Function", "Temp"} ->
           LET a == to_addr(b, e)
           IN emitNamed(a.b, [op |-> "load", addr |-> a.v])
      [] e.tag = "Lit" -> [b |-> b, v |-> to_value_lit(e.lit)]

\* BodyTranslator::to_value
to_value(b, e) ==
    CASE e.tag \in {"Global", "Function"} ->
           LET a == to_addr(b, e)
           IN emitNamed(a.b, [op |-> "load", addr |-> a.v])
      [] e.tag = "Temp" ->
           IF e.name \in params
           THEN [b |-> b, v |-> [k |-> "param", name |-> e.name]]
           ELSE LET a == to_addr(b, e)
                IN emitNamed(a.b, [op |-> "load", addr |-> a.v])
      [] e.tag = "Lit" -> [b |-> b, v |-> to_value_lit(e.lit)]

\* args.iter().map(|a| self.to_value(a)).collect()
RECURSIVE to_values(_, _)
to_values(b, es) ==
    IF es = << >> THEN [b |-> b, vs |-> << >>]
    ELSE LET h == to_value(b, Head(es))
             t == to_values(h.b, Tail(es))
         IN [b |-> t.b, vs |-> <<h.v>> \o t.vs]

\* to_bb without the lookup: every call appends a block.
to_bb_AlwaysNew(b, label) ==
    [b |-> [b EXCEPT !.blocks = Append(@, << >>),
                     !.labels = (label :> (Len(b.blocks) + 1)) @@ @],
     bb |-> Len(b.blocks) + 1]

\* BodyTranslator::to_bb
to_bb(b, label) ==
    IF label \in DOMAIN b.labels
    THEN [b |-> b, bb |-> b.labels[label]]
    ELSE [b |-> [b EXCEPT !.blocks = Append(@, << >>),
                          !.labels = (label :> (Len(b.blocks) + 1)) @@ @],
          bb |-> Len(b.blocks) + 1]

\* The operands of an operator's instruction: the values of the statement's
\* first and second operand.
A1 == [k |-> "a1"]
A2 == [k |-> "a2"]

\* crate::mir::ops::Bop, as matched at llvm_gen.rs:402-515
Bops ==
    {"Add_i32", "Add_i64", "Add_f32", "Add_f64", "Sub_i32", "Sub_i64", 
     "Sub_f32", "Sub_f64", "Mul_i32", "Mul_i64", "Mul_f32", "Mul_f64", 
     "Div_s_i32", "Div_s_i64", "Div_u_i32", "Div_u_i64", "Div_f32", 
     "Div_f64", "Rem_s_i32", "Rem_s_i64", "Rem_u_i32", "Rem_u_i64", 
     "Rem_f32", "Rem_f64", "And_i32", "And_i64", "Or_i32", "Or_i64", 
     "Xor_i32", "Xor_i64", "Shl_i32", "Shl_i64", "Shr_u_i32", "Shr_u_i64", 
     "Shr_i32", "Shr_i64", "Eq_ptr", "Eq_z", "Eq_i32", "Eq_i64", "Eq_f32", 
     "Eq_f64", "Ne_ptr", "Ne_z", "Ne_i32", "Ne_i64", "Ne_f32", "Ne_f64", 
     "Lt_s_i32", "Lt_s_i64", "Lt_u_i32", "Lt_u_i64", "Lt_f32", "Lt_f64", 
     "Le_s_i32", "Le_s_i64", "Le_u_i32", "Le_u_i64", "Le_f32", "Le_f64", 
     "Gt_s_i32", "Gt_s_i64", "Gt_u_i32", "Gt_u_i64", "Gt_f32", "Gt_f64", 
     "Ge_s_i32", "Ge_s_i64", "Ge_u_i32", "Ge_u_i64", "Ge_f32", "Ge_f64", 
     "Min_f32", "Min_f64", "Max_f32", "Max_f64", "Copysign_f32", 
     "Copysign_f64", "Add_word", "Mul_word", "And_z", "Or_z", "Rotl_i32", 
     "Rotl_i64", "Rotr_i32", "Rotr_i64", "Atan2_f32", "Atan2_f64"}

\* crate::mir::ops::Uop, as matched at llvm_gen.rs:523-630
Uops ==
    {"Not_z", "Neg_f32", "Neg_f64", "Ctz_i32", "Clz_i32", "Popcount_i32", 
     "Eqz_i32", "Complement_i32", "Ctz_i64", "Clz_i64", "Popcount_i64", 
     "Eqz_i64", "Complement_i64", "Abs_f32", "Ceil_f32", "Floor_f32", 
     "Trunc_f32", "Nearest_f32", "Exp_f32", "Log_f32", "Sqrt_f32", 
     "Pow_f32", "Logb_f32", "Sin_f32", "Cos_f32", "Tan_f32", "Asin_f32", 
     "Acos_f32", "Atan_f32", "Sinh_f32", "Cosh_f32", "Tanh_f32", 
     "Asinh_f32", "Acosh_f32", "Atanh_f32", "IsNan_f32", "IsInf_f32", 
     "IsDenormalized_f32", "IsNegativeZero_f32", "IsIEEE_f32", "Abs_f64", 
     "Ceil_f64", "Floor_f64", "Trunc_f64", "Nearest_f64", "Exp_f64", 
     "Log_f64", "Sqrt_f64", "Pow_f64", "Logb_f64", "Sin_f64", "Cos_f64", 
     "Tan_f64", "Asin_f64", "Acos_f64", "Atan_f64", "Sinh_f64", 
     "Cosh_f64", "Tanh_f64", "Asinh_f64", "Acosh_f64", "Atanh_f64", 
     "IsNan_f64", "IsInf_f64", "IsDenormalized_f64", "IsNegativeZero_f64", 
     "IsIEEE_f64", "Wrap_i64_i32", "Trunc_s_f32_i32", "Trunc_s_f64_i32", 
     "Trunc_u_f32_i32", "Trunc_u_f64_i32", "Trunc_s_f32_i64", 
     "Trunc_s_f64_i64", "Trunc_u_f32_i64", "Trunc_u_f64_i64", 
     "Extend_s_i32_i64", "Extend_u_i32_i64", "Reinterpret_f32_i32", 
     "Reinterpret_f64_i64", "Reinterpret_i32_f32", "Reinterpret_i64_f64", 
     "Convert_s_i32_f32", "Convert_u_i32_f32", "Convert_s_i64_f32", 
     "Convert_u_i64_f32", "Convert_s_i32_f64", "Convert_u_i32_f64", 
     "Convert_s_i64_f64", "Convert_u_i64_f64", "Demote_f64_f32", 
     "Promote_f32_f64"}

\* translate_stm, Binary arm: the instruction of each Bop
BopInsn(op) ==
    CASE op = "Add_i32" ->
             [kind |-> "native", insn |-> "add", pred |-> "", args |-> <<A1, A2>>, ty |-> LT("None")]
      [] op = "Add_i64" ->
             [kind |-> "native", insn |-> "add", pred |-> "", args |-> <<A1, A2>>, ty |-> LT("None")]
      [] op = "Add_f32" ->
             [kind |-> "native", insn |-> "fadd", pred |-> "", args |-> <<A1, A2>>, ty |-> LT("None")]
      [] op = "Add_f64" ->
             [kind |-> "native", insn |-> "fadd", pred |-> "", args |-> <<A1, A2>>, ty |-> LT("None")]
      [] op = "Sub_i32" ->
             [kind |-> "native", insn |-> "sub", pred |-> "", args |-> <<A1, A2>>, ty |-> LT("None")]
      [] op = "Sub_i64" ->
             [kind |-> "native", insn |-> "sub", pred |-> "", args |-> <<A1, A2>>, ty |-> LT("None")]
      [] op = "Sub_f32" ->
             [kind |-> "native", insn |-> "fsub", pred |-> "", args |-> <<A1, A2>>, ty |-> LT("None")]
      [] op = "Sub_f64" ->
             [kind |-> "native", insn |-> "fsub", pred |-> "", args |-> <<A1, A2>>, ty |-> LT("None")]
      [] op = "Mul_i32" ->
             [kind |-> "native", insn |-> "mul", pred |-> "", args |-> <<A1, A2>>, ty |-> LT("None")]
      [] op = "Mul_i64" ->
             [kind |-> "native", insn |-> "mul", pred |-> "", args |-> <<A1, A2>>, ty |-> LT("None")]
      [] op = "Mul_f32" ->
             [kind |-> "native", insn |-> "fmul", pred |-> "", args |-> <<A1, A2>>, ty |-> LT("None")]
      [] op = "Mul_f64" ->
             [kind |-> "native", insn |-> "fmul", pred |-> "", args |-> <<A1, A2>>, ty |-> LT("None")]
      [] op = "Div_s_i32" ->
             [kind |-> "native", insn |-> "sdiv", pred |-> "", args |-> <<A1, A2>>, ty |-> LT("None")]
      [] op = "Div_s_i64" ->
             [kind |-> "native", insn |-> "sdiv", pred |-> "", args |-> <<A1, A2>>, ty |-> LT("None")]
      [] op = "Div_u_i32" ->
             [kind |-> "native", insn |-> "udiv", pred |-> "", args |-> <<A1, A2>>, ty |-> LT("None")]
      [] op = "Div_u_i64" ->
             [kind |-> "native", insn |-> "udiv", pred |-> "", args |-> <<A1, A2>>, ty |-> LT("None")]
      [] op = "Div_f32" ->
             [kind |-> "native", insn |-> "fdiv", pred |-> "", args |-> <<A1, A2>>, ty |-> LT("None")]
      [] op = "Div_f64" ->
             [kind |-> "native", insn |-> "fdiv", pred |-> "", args |-> <<A1, A2>>, ty |-> LT("None")]
      [] op = "Rem_s_i32" ->
             [kind |-> "native", insn |-> "srem", pred |-> "", args |-> <<A1, A2>>, ty |-> LT("None")]
      [] op = "Rem_s_i64" ->
             [kind |-> "native", insn |-> "srem", pred |-> "", args |-> <<A1, A2>>, ty |-> LT("None")]
      [] op = "Rem_u_i32" ->
             [kind |-> "native", insn |-> "urem", pred |-> "", args |-> <<A1, A2>>, ty |-> LT("None")]
      [] op = "Rem_u_i64" ->
             [kind |-> "native", insn |-> "urem", pred |-> "", args |-> <<A1, A2>>, ty |-> LT("None")]
      [] op = "Rem_f32" ->
             [kind |-> "native", insn |-> "frem", pred |-> "", args |-> <<A1, A2>>, ty |-> LT("None")]
      [] op = "Rem_f64" ->
             [kind |-> "native", insn |-> "frem", pred |-> "", args |-> <<A1, A2>>, ty |-> LT("None")]
      [] op = "And_i32" ->
             [kind |-> "native", insn |-> "and", pred |-> "", args |-> <<A1, A2>>, ty |-> LT("None")]
      [] op = "And_i64" ->
             [kind |-> "native", insn |-> "and", pred |-> "", args |-> <<A1, A2>>, ty |-> LT("None")]
      [] op = "Or_i32" ->
             [kind |-> "native", insn |-> "or", pred |-> "", args |-> <<A1, A2>>, ty |-> LT("None")]
      [] op = "Or_i64" ->
             [kind |-> "native", insn |-> "or", pred |-> "", args |-> <<A1, A2>>, ty |-> LT("None")]
      [] op = "Xor_i32" ->
             [kind |-> "native", insn |-> "xor", pred |-> "", args |-> <<A1, A2>>, ty |-> LT("None")]
      [] op = "Xor_i64" ->
             [kind |-> "native", insn |-> "xor", pred |-> "", args |-> <<A1, A2>>, ty |-> LT("None")]
      [] op = "Shl_i32" ->
             [kind |-> "native", insn |-> "shl", pred |-> "", args |-> <<A1, A2>>, ty |-> LT("None")]
      [] op = "Shl_i64" ->
             [kind |-> "native", insn |-> "shl", pred |-> "", args |-> <<A1, A2>>, ty |-> LT("None")]
      [] op = "Shr_u_i32" ->
             [kind |-> "native", insn |-> "lshr", pred |-> "", args |-> <<A1, A2>>, ty |-> LT("None")]
      [] op = "Shr_u_i64" ->
             [kind |-> "native", insn |-> "lshr", pred |-> "", args |-> <<A1, A2>>, ty |-> LT("None")]
      [] op = "Shr_i32" ->
             [kind |-> "native", insn |-> "ashr", pred |-> "", args |-> <<A1, A2>>, ty |-> LT("None")]
      [] op = "Shr_i64" ->
             [kind |-> "native", insn |-> "ashr", pred |-> "", args |-> <<A1, A2>>, ty |-> LT("None")]
      [] op = "Eq_ptr" ->
             [kind |-> "native", insn |-> "icmp", pred |-> "EQ", args |-> <<A1, A2>>, ty |-> LT("None")]
      [] op = "Eq_z" ->
             [kind |-> "native", insn |-> "icmp", pred |-> "EQ", args |-> <<A1, A2>>, ty |-> LT("None")]
      [] op = "Eq_i32" ->
             [kind |-> "native", insn |-> "icmp", pred |-> "EQ", args |-> <<A1, A2>>, ty |-> LT("None")]
      [] op = "Eq_i64" ->
             [kind |-> "native", insn |-> "icmp", pred |-> "EQ", args |-> <<A1, A2>>, ty |-> LT("None")]
      [] op = "Eq_f32" ->
             [kind |-> "native", insn |-> "fcmp", pred |-> "OrderedEQ", args |-> <<A1, A2>>, ty |-> LT("None")]
      [] op = "Eq_f64" ->
             [kind |-> "native", insn |-> "fcmp", pred |-> "OrderedEQ", args |-> <<A1, A2>>, ty |-> LT("None")]
      [] op = "Ne_ptr" ->
             [kind |-> "native", insn |-> "icmp", pred |-> "NE", args |-> <<A1, A2>>, ty |-> LT("None")]
      [] op = "Ne_z" ->
             [kind |-> "native", insn |-> "icmp", pred |-> "NE", args |-> <<A1, A2>>, ty |-> LT("None")]
      [] op = "Ne_i32" ->
             [kind |-> "native", insn |-> "icmp", pred |-> "NE", args |-> <<A1, A2>>, ty |-> LT("None")]
      [] op = "Ne_i64" ->
             [kind |-> "native", insn |-> "icmp", pred |-> "NE", args |-> <<A1, A2>>, ty |-> LT("None")]
      [] op = "Ne_f32" ->
             [kind |-> "native", insn |-> "fcmp", pred |-> "OrderedNE", args |-> <<A1, A2>>, ty |-> LT("None")]
      [] op = "Ne_f64" ->
             [kind |-> "native", insn |-> "fcmp", pred |-> "OrderedNE", args |-> <<A1, A2>>, ty |-> LT("None")]
      [] op = "Lt_s_i32" ->
             [kind |-> "native", insn |-> "icmp", pred |-> "SignedLT", args |-> <<A1, A2>>, ty |-> LT("None")]
      [] op = "Lt_s_i64" ->
             [kind |-> "native", insn |-> "icmp", pred |-> "SignedLT", args |-> <<A1, A2>>, ty |-> LT("None")]
      [] op = "Lt_u_i32" ->
             [kind |-> "native", insn |-> "icmp", pred |-> "UnsignedLT", args |-> <<A1, A2>>, ty |-> LT("None")]
      [] op = "Lt_u_i64" ->
             [kind |-> "native", insn |-> "icmp", pred |-> "UnsignedLT", args |-> <<A1, A2>>, ty |-> LT("None")]
      [] op = "Lt_f32" ->
             [kind |-> "native", insn |-> "fcmp", pred |-> "OrderedLT", args |-> <<A1, A2>>, ty |-> LT("None")]
      [] op = "Lt_f64" ->
             [kind |-> "native", insn |-> "fcmp", pred |-> "OrderedLT", args |-> <<A1, A2>>, ty |-> LT("None")]
      [] op = "Le_s_i32" ->
             [kind |-> "native", insn |-> "icmp", pred |-> "SignedLE", args |-> <<A1, A2>>, ty |-> LT("None")]
      [] op = "Le_s_i64" ->
             [kind |-> "native", insn |-> "icmp", pred |-> "SignedLE", args |-> <<A1, A2>>, ty |-> LT("None")]
      [] op = "Le_u_i32" ->
             [kind |-> "native", insn |-> "icmp", pred |-> "UnsignedLE", args |-> <<A1, A2>>, ty |-> LT("None")]
      [] op = "Le_u_i64" ->
             [kind |-> "native", insn |-> "icmp", pred |-> "UnsignedLE", args |-> <<A1, A2>>, ty |-> LT("None")]
      [] op = "Le_f32" ->
             [kind |-> "native", insn |-> "fcmp", pred |-> "OrderedLE", args |-> <<A1, A2>>, ty |-> LT("None")]
      [] op = "Le_f64" ->
             [kind |-> "native", insn |-> "fcmp", pred |-> "OrderedLE", args |-> <<A1, A2>>, ty |-> LT("None")]
      [] op = "Gt_s_i32" ->
             [kind |-> "native", insn |-> "icmp", pred |-> "SignedGT", args |-> <<A1, A2>>, ty |-> LT("None")]
      [] op = "Gt_s_i64" ->
             [kind |-> "native", insn |-> "icmp", pred |-> "SignedGT", args |-> <<A1, A2>>, ty |-> LT("None")]
      [] op = "Gt_u_i32" ->
             [kind |-> "native", insn |-> "icmp", pred |-> "UnsignedGT", args |-> <<A1, A2>>, ty |-> LT("None")]
      [] op = "Gt_u_i64" ->
             [kind |-> "native", insn |-> "icmp", pred |-> "UnsignedGT", args |-> <<A1, A2>>, ty |-> LT("None")]
      [] op = "Gt_f32" ->
             [kind |-> "native", insn |-> "fcmp", pred |-> "OrderedGT", args |-> <<A1, A2>>, ty |-> LT("None")]
      [] op = "Gt_f64" ->
             [kind |-> "native", insn |-> "fcmp", pred |-> "OrderedGT", args |-> <<A1, A2>>, ty |-> LT("None")]
      [] op = "Ge_s_i32" ->
             [kind |-> "native", insn |-> "icmp", pred |-> "SignedGE", args |-> <<A1, A2>>, ty |-> LT("None")]
      [] op = "Ge_s_i64" ->
             [kind |-> "native", insn |-> "icmp", pred |-> "SignedGE", args |-> <<A1, A2>>, ty |-> LT("None")]
      [] op = "Ge_u_i32" ->
             [kind |-> "native", insn |-> "icmp", pred |-> "UnsignedGE", args |-> <<A1, A2>>, ty |-> LT("None")]
      [] op = "Ge_u_i64" ->
             [kind |-> "native", insn |-> "icmp", pred |-> "UnsignedGE", args |-> <<A1, A2>>, ty |-> LT("None")]
      [] op = "Ge_f32" ->
             [kind |-> "native", insn |-> "fcmp", pred |-> "OrderedGE", args |-> <<A1, A2>>, ty |-> LT("None")]
      [] op = "Ge_f64" ->
             [kind |-> "native", insn |-> "fcmp", pred |-> "OrderedGE", args |-> <<A1, A2>>, ty |-> LT("None")]
      [] op = "Min_f32" ->
             [kind |-> "intrinsic", name |-> "llvm.minimum.f32", args |-> <<A1, A2>>,
              tys |-> <<LT("F32"), LT("F32")>>, ret |-> LT("F32")]
      [] op = "Min_f64" ->
             [kind |-> "intrinsic", name |-> "llvm.minimum.f64", args |-> <<A1, A2>>,
              tys |-> <<LT("F64"), LT("F64")>>, ret |-> LT("F64")]
      [] op = "Max_f32" ->
             [kind |-> "intrinsic", name |-> "llvm.maximum.f32", args |-> <<A1, A2>>,
              tys |-> <<LT("F32"), LT("F32")>>, ret |-> LT("F32")]
      [] op = "Max_f64" ->
             [kind |-> "intrinsic", name |-> "llvm.maximum.f64", args |-> <<A1, A2>>,
              tys |-> <<LT("F64"), LT("F64")>>, ret |-> LT("F64")]
      [] op = "Copysign_f32" ->
             [kind |-> "intrinsic", name |-> "llvm.copysign.f32", args |-> <<A1, A2>>,
              tys |-> <<LT("F32"), LT("F32")>>, ret |-> LT("F32")]
      [] op = "Copysign_f64" ->
             [kind |-> "intrinsic", name |-> "llvm.copysign.f64", args |-> <<A1, A2>>,
              tys |-> <<LT("F64"), LT("F64")>>, ret |-> LT("F64")]
      [] op = "Add_word" ->
             [kind |-> "native", insn |-> "add", pred |-> "", args |-> <<A1, A2>>, ty |-> LT("None")]
      [] op = "Mul_word" ->
             [kind |-> "native", insn |-> "mul", pred |-> "", args |-> <<A1, A2>>, ty |-> LT("None")]
      [] op = "And_z" ->
             [kind |-> "native", insn |-> "and", pred |-> "", args |-> <<A1, A2>>, ty |-> LT("None")]
      [] op = "Or_z" ->
             [kind |-> "native", insn |-> "or", pred |-> "", args |-> <<A1, A2>>, ty |-> LT("None")]
      [] op = "Rotl_i32" ->
             [kind |-> "intrinsic", name |-> "llvm.fshl.i32", args |-> <<A1, A1, A2>>,
              tys |-> <<LT("I32"), LT("I32"), LT("I32")>>, ret |-> LT("I32")]
      [] op = "Rotl_i64" ->
             [kind |-> "intrinsic", name |-> "llvm.fshl.i64", args |-> <<A1, A1, A2>>,
              tys |-> <<LT("I64"), LT("I64"), LT("I64")>>, ret |-> LT("I64")]
      [] op = "Rotr_i32" ->
             [kind |-> "intrinsic", name |-> "llvm.fshr.i32", args |-> <<A1, A1, A2>>,
              tys |-> <<LT("I32"), LT("I32"), LT("I32")>>, ret |-> LT("I32")]
      [] op = "Rotr_i64" ->
             [kind |-> "intrinsic", name |-> "llvm.fshr.i64", args |-> <<A1, A1, A2>>,
              tys |-> <<LT("I64"), LT("I64"), LT("I64")>>, ret |-> LT("I64")]
      [] op = "Atan2_f32" ->
             [kind |-> "unimplemented"]
      [] op = "Atan2_f64" ->
             [kind |-> "unimplemented"]

\* translate_stm, Unary arm: the instruction of each Uop
UopInsn(op) ==
    CASE op = "Not_z" ->
             [kind |-> "native", insn |-> "not", pred |-> "", args |-> <<A1>>, ty |-> LT("None")]
      [] op = "Neg_f32" ->
             [kind |-> "native", insn |-> "fneg", pred |-> "", args |-> <<A1>>, ty |-> LT("None")]
      [] op = "Neg_f64" ->
             [kind |-> "native", insn |-> "fneg", pred |-> "", args |-> <<A1>>, ty |-> LT("None")]
      [] op = "Ctz_i32" ->
             [kind |-> "intrinsic", name |-> "llvm.cttz.i32", args |-> <<A1>>,
              tys |-> <<LT("I32")>>, ret |-> LT("I32")]
      [] op = "Clz_i32" ->
             [kind |-> "intrinsic", name |-> "llvm.ctlz.i32", args |-> <<A1>>,
              tys |-> <<LT("I32")>>, ret |-> LT("I32")]
      [] op = "Popcount_i32" ->
             [kind |-> "intrinsic", name |-> "llvm.ctpop.i32", args |-> <<A1>>,
              tys |-> <<LT("I32")>>, ret |-> LT("I32")]
      [] op = "Eqz_i32" ->
             [kind |-> "native", insn |-> "icmp", pred |-> "EQ", args |-> <<A1, Const("i32", 0)>>, ty |-> LT("None")]
      [] op = "Complement_i32" ->
             [kind |-> "native", insn |-> "xor", pred |-> "", args |-> <<A1, Const("i32", -1)>>, ty |-> LT("None")]
      [] op = "Ctz_i64" ->
             [kind |-> "intrinsic", name |-> "llvm.cttz.i64", args |-> <<A1>>,
              tys |-> <<LT("I64")>>, ret |-> LT("I64")]
      [] op = "Clz_i64" ->
             [kind |-> "intrinsic", name |-> "llvm.ctlz.i64", args |-> <<A1>>,
              tys |-> <<LT("I64")>>, ret |-> LT("I64")]
      [] op = "Popcount_i64" ->
             [kind |-> "intrinsic", name |-> "llvm.ctpop.i64", args |-> <<A1>>,
              tys |-> <<LT("I64")>>, ret |-> LT("I64")]
      [] op = "Eqz_i64" ->
             [kind |-> "native", insn |-> "icmp", pred |-> "EQ", args |-> <<A1, Const("i64", 0)>>, ty |-> LT("None")]
      [] op = "Complement_i64" ->
             [kind |-> "native", insn |-> "xor", pred |-> "", args |-> <<A1, Const("i64", -1)>>, ty |-> LT("None")]
      [] op = "Abs_f32" ->
             [kind |-> "intrinsic", name |-> "llvm.fabs.f32", args |-> <<A1>>,
              tys |-> <<LT("F32")>>, ret |-> LT("F32")]
      [] op = "Ceil_f32" ->
             [kind |-> "intrinsic", name |-> "llvm.ceil.f32", args |-> <<A1>>,
              tys |-> <<LT("F32")>>, ret |-> LT("F32")]
      [] op = "Floor_f32" ->
             [kind |-> "intrinsic", name |-> "llvm.floor.f32", args |-> <<A1>>,
              tys |-> <<LT("F32")>>, ret |-> LT("F32")]
      [] op = "Trunc_f32" ->
             [kind |-> "intrinsic", name |-> "llvm.trunc.f32", args |-> <<A1>>,
              tys |-> <<LT("F32")>>, ret |-> LT("F32")]
      [] op = "Nearest_f32" ->
             [kind |-> "intrinsic", name |-> "llvm.round.f32", args |-> <<A1>>,
              tys |-> <<LT("F32")>>, ret |-> LT("F32")]
      [] op = "Exp_f32" ->
             [kind |-> "intrinsic", name |-> "llvm.exp.f32", args |-> <<A1>>,
              tys |-> <<LT("F32")>>, ret |-> LT("F32")]
      [] op = "Log_f32" ->
             [kind |-> "intrinsic", name |-> "llvm.log.f32", args |-> <<A1>>,
              tys |-> <<LT("F32")>>, ret |-> LT("F32")]
      [] op = "Sqrt_f32" ->
             [kind |-> "intrinsic", name |-> "llvm.sqrt.f32", args |-> <<A1>>,
              tys |-> <<LT("F32")>>, ret |-> LT("F32")]
      [] op = "Pow_f32" ->
             [kind |-> "intrinsic", name |-> "llvm.pow.f32", args |-> <<A1>>,
              tys |-> <<LT("F32")>>, ret |-> LT("F32")]
      [] op = "Logb_f32" ->
             [kind |-> "unimplemented"]
      [] op = "Sin_f32" ->
             [kind |-> "intrinsic", name |-> "llvm.sin.f32", args |-> <<A1>>,
              tys |-> <<LT("F32")>>, ret |-> LT("F32")]
      [] op = "Cos_f32" ->
             [kind |-> "intrinsic", name |-> "llvm.cos.f32", args |-> <<A1>>,
              tys |-> <<LT("F32")>>, ret |-> LT("F32")]
      [] op = "Tan_f32" ->
             [kind |-> "intrinsic", name |-> "llvm.tan.f32", args |-> <<A1>>,
              tys |-> <<LT("F32")>>, ret |-> LT("F32")]
      [] op = "Asin_f32" ->
             [kind |-> "unimplemented"]
      [] op = "Acos_f32" ->
             [kind |-> "unimplemented"]
      [] op = "Atan_f32" ->
             [kind |-> "unimplemented"]
      [] op = "Sinh_f32" ->
             [kind |-> "unimplemented"]
      [] op = "Cosh_f32" ->
             [kind |-> "unimplemented"]
      [] op = "Tanh_f32" ->
             [kind |-> "unimplemented"]
      [] op = "Asinh_f32" ->
             [kind |-> "unimplemented"]
      [] op = "Acosh_f32" ->
             [kind |-> "unimplemented"]
      [] op = "Atanh_f32" ->
             [kind |-> "unimplemented"]
      [] op = "IsNan_f32" ->
             [kind |-> "unimplemented"]
      [] op = "IsInf_f32" ->
             [kind |-> "unimplemented"]
      [] op = "IsDenormalized_f32" ->
             [kind |-> "unimplemented"]
      [] op = "IsNegativeZero_f32" ->
             [kind |-> "unimplemented"]
      [] op = "IsIEEE_f32" ->
             [kind |-> "unimplemented"]
      [] op = "Abs_f64" ->
             [kind |-> "intrinsic", name |-> "llvm.fabs.f64", args |-> <<A1>>,
              tys |-> <<LT("F64")>>, ret |-> LT("F64")]
      [] op = "Ceil_f64" ->
             [kind |-> "intrinsic", name |-> "llvm.ceil.f64", args |-> <<A1>>,
              tys |-> <<LT("F64")>>, ret |-> LT("F64")]
      [] op = "Floor_f64" ->
             [kind |-> "intrinsic", name |-> "llvm.floor.f64", args |-> <<A1>>,
              tys |-> <<LT("F64")>>, ret |-> LT("F64")]
      [] op = "Trunc_f64" ->
             [kind |-> "intrinsic", name |-> "llvm.trunc.f64", args |-> <<A1>>,
              tys |-> <<LT("F64")>>, ret |-> LT("F64")]
      [] op = "Nearest_f64" ->
             [kind |-> "intrinsic", name |-> "llvm.round.f64", args |-> <<A1>>,
              tys |-> <<LT("F64")>>, ret |-> LT("F64")]
      [] op = "Exp_f64" ->
             [kind |-> "intrinsic", name |-> "llvm.exp.f64", args |-> <<A1>>,
              tys |-> <<LT("F64")>>, ret |-> LT("F64")]
      [] op = "Log_f64" ->
             [kind |-> "intrinsic", name |-> "llvm.log.f64", args |-> <<A1>>,
              tys |-> <<LT("F64")>>, ret |-> LT("F64")]
      [] op = "Sqrt_f64" ->
             [kind |-> "intrinsic", name |-> "llvm.sqrt.f64", args |-> <<A1>>,
              tys |-> <<LT("F64")>>, ret |-> LT("F64")]
      [] op = "Pow_f64" ->
             [kind |-> "intrinsic", name |-> "llvm.pos.f64", args |-> <<A1>>,
              tys |-> <<LT("F64")>>, ret |-> LT("F64")]
      [] op = "Logb_f64" ->
             [kind |-> "unimplemented"]
      [] op = "Sin_f64" ->
             [kind |-> "intrinsic", name |-> "llvm.sin.f64", args |-> <<A1>>,
              tys |-> <<LT("F64")>>, ret |-> LT("F64")]
      [] op = "Cos_f64" ->
             [kind |-> "intrinsic", name |-> "llvm.cos.f64", args |-> <<A1>>,
              tys |-> <<LT("F64")>>, ret |-> LT("F64")]
      [] op = "Tan_f64" ->
             [kind |-> "intrinsic", name |-> "llvm.tan.f64", args |-> <<A1>>,
              tys |-> <<LT("F64")>>, ret |-> LT("F64")]
      [] op = "Asin_f64" ->
             [kind |-> "unimplemented"]
      [] op = "Acos_f64" ->
             [kind |-> "unimplemented"]
      [] op = "Atan_f64" ->
             [kind |-> "unimplemented"]
      [] op = "Sinh_f64" ->
             [kind |-> "unimplemented"]
      [] op = "Cosh_f64" ->
             [kind |-> "unimplemented"]
      [] op = "Tanh_f64" ->
             [kind |-> "unimplemented"]
      [] op = "Asinh_f64" ->
             [kind |-> "unimplemented"]
      [] op = "Acosh_f64" ->
             [kind |-> "unimplemented"]
      [] op = "Atanh_f64" ->
             [kind |-> "unimplemented"]
      [] op = "IsNan_f64" ->
             [kind |-> "unimplemented"]
      [] op = "IsInf_f64" ->
             [kind |-> "unimplemented"]
      [] op = "IsDenormalized_f64" ->
             [kind |-> "unimplemented"]
      [] op = "IsNegativeZero_f64" ->
             [kind |-> "unimplemented"]
      [] op = "IsIEEE_f64" ->
             [kind |-> "unimplemented"]
      [] op = "Wrap_i64_i32" ->
             [kind |-> "native", insn |-> "trunc", pred |-> "", args |-> <<A1>>, ty |-> LT("I32")]
      [] op = "Trunc_s_f32_i32" ->
             [kind |-> "native", insn |-> "fp_to_si", pred |-> "", args |-> <<A1>>, ty |-> LT("I32")]
      [] op = "Trunc_s_f64_i32" ->
             [kind |-> "native", insn |-> "fp_to_si", pred |-> "", args |-> <<A1>>, ty |-> LT("I32")]
      [] op = "Trunc_u_f32_i32" ->
             [kind |-> "native", insn |-> "fp_to_ui", pred |-> "", args |-> <<A1>>, ty |-> LT("I32")]
      [] op = "Trunc_u_f64_i32" ->
             [kind |-> "native", insn |-> "fp_to_ui", pred |-> "", args |-> <<A1>>, ty |-> LT("I32")]
      [] op = "Trunc_s_f32_i64" ->
             [kind |-> "native", insn |-> "fp_to_si", pred |-> "", args |-> <<A1>>, ty |-> LT("I64")]
      [] op = "Trunc_s_f64_i64" ->
             [kind |-> "native", insn |-> "fp_to_si", pred |-> "", args |-> <<A1>>, ty |-> LT("I64")]
      [] op = "Trunc_u_f32_i64" ->
             [kind |-> "native", insn |-> "fp_to_ui", pred |-> "", args |-> <<A1>>, ty |-> LT("I64")]
      [] op = "Trunc_u_f64_i64" ->
             [kind |-> "native", insn |-> "fp_to_ui", pred |-> "", args |-> <<A1>>, ty |-> LT("I64")]
      [] op = "Extend_s_i32_i64" ->
             [kind |-> "native", insn |-> "sext", pred |-> "", args |-> <<A1>>, ty |-> LT("I64")]
      [] op = "Extend_u_i32_i64" ->
             [kind |-> "native", insn |-> "zext", pred |-> "", args |-> <<A1>>, ty |-> LT("I64")]
      [] op = "Reinterpret_f32_i32" ->
             [kind |-> "native", insn |-> "bitcast", pred |-> "", args |-> <<A1>>, ty |-> LT("I32")]
      [] op = "Reinterpret_f64_i64" ->
             [kind |-> "native", insn |-> "bitcast", pred |-> "", args |-> <<A1>>, ty |-> LT("I64")]
      [] op = "Reinterpret_i32_f32" ->
             [kind |-> "native", insn |-> "bitcast", pred |-> "", args |-> <<A1>>, ty |-> LT("F32")]
      [] op = "Reinterpret_i64_f64" ->
             [kind |-> "native", insn |-> "bitcast", pred |-> "", args |-> <<A1>>, ty |-> LT("F64")]
      [] op = "Convert_s_i32_f32" ->
             [kind |-> "native", insn |-> "si_to_fp", pred |-> "", args |-> <<A1>>, ty |-> LT("F32")]
      [] op = "Convert_u_i32_f32" ->
             [kind |-> "native", insn |-> "ui_to_fp", pred |-> "", args |-> <<A1>>, ty |-> LT("F32")]
      [] op = "Convert_s_i64_f32" ->
             [kind |-> "native", insn |-> "si_to_fp", pred |-> "", args |-> <<A1>>, ty |-> LT("F32")]
      [] op = "Convert_u_i64_f32" ->
             [kind |-> "native", insn |-> "ui_to_fp", pred |-> "", args |-> <<A1>>, ty |-> LT("F32")]
      [] op = "Convert_s_i32_f64" ->
             [kind |-> "native", insn |-> "si_to_fp", pred |-> "", args |-> <<A1>>, ty |-> LT("F64")]
      [] op = "Convert_u_i32_f64" ->
             [kind |-> "native", insn |-> "ui_to_fp", pred |-> "", args |-> <<A1>>, ty |-> LT("F64")]
      [] op = "Convert_s_i64_f64" ->
             [kind |-> "native", insn |-> "si_to_fp", pred |-> "", args |-> <<A1>>, ty |-> LT("F64")]
      [] op = "Convert_u_i64_f64" ->
             [kind |-> "native", insn |-> "ui_to_fp", pred |-> "", args |-> <<A1>>, ty |-> LT("F64")]
      [] op = "Demote_f64_f32" ->
             [kind |-> "native", insn |-> "fptrunc", pred |-> "", args |-> <<A1>>, ty |-> LT("F32")]
      [] op = "Promote_f32_f64" ->
             [kind |-> "native", insn |-> "fpext", pred |-> "", args |-> <<A1>>, ty |-> LT("F32")]

\* The value an operand of an operator table stands for.
operand(x, a1, a2) ==
    IF x.k = "a1" THEN a1 ELSE IF x.k = "a2" THEN a2 ELSE x

operands(xs, a1, a2) == [i \in 1..Len(xs) |-> operand(xs[i], a1, a2)]

\* compute with a stub instruction where the source has unimplemented!().
compute_Stubbed(b, ins, a1, a2) ==
    CASE ins.kind = "unimplemented" ->
           emitNamed(b, [op |-> "undef", pred |-> "", args |-> << >>, ty |-> LLT("none")])
      [] ins.kind = "native" ->
           emitNamed(b, [op |-> ins.insn, pred |-> ins.pred,
                         args |-> operands(ins.args, a1, a2),
                         ty |-> IF ins.ty.tag = "None" THEN LLT("none") ELSE to_type(ins.ty)])
      [] ins.kind = "intrinsic" ->
           LET f == to_addr(b, [tag |-> "Function", name |-> NameNew(ins.name),
                                ty |-> [tag |-> "Fun", ret |-> ins.ret, args |-> ins.tys]])
           IN emitNamed(f.b, [op |-> "call", f |-> f.v,
                              args |-> operands(ins.args, a1, a2)])

\* The `let v = match op { ... }` of the Binary and Unary arms: one builder
\* call, one intrinsic! call, or unimplemented!().
compute(b, ins, a1, a2) ==
    CASE ins.kind = "unimplemented" -> [b |-> panic(b), v |-> NoValue]
      [] ins.kind = "native" ->
           emitNamed(b, [op |-> ins.insn, pred |-> ins.pred,
                         args |-> operands(ins.args, a1, a2),
                         ty |-> IF ins.ty.tag = "None" THEN LLT("none") ELSE to_type(ins.ty)])
      [] ins.kind = "intrinsic" ->
           LET f == to_addr(b, [tag |-> "Function", name |-> NameNew(ins.name),
                                ty |-> [tag |-> "Fun", ret |-> ins.ret, args |-> ins.tys]])
           IN emitNamed(f.b, [op |-> "call", f |-> f.v,
                              args |-> operands(ins.args, a1, a2)])

\* `let x = self.to_addr(dst); self.builder.store(v, x)`
storeDst(b, v, dst) ==
    LET x == to_addr(b, dst)
    IN emit(x.b, [op |-> "store", v |-> v, p |-> x.v])

\* BodyTranslator::translate_stm
translate_stm(b, stm) ==
    CASE stm.tag = "CJump" ->
           LET i == to_value(b, stm.cmp)
               t == to_bb(i.b, stm.if_true)
               e == to_bb(t.b, stm.if_false)
           IN emit(e.b, [op |-> "cond_br", cond |-> i.v, t |-> t.bb, e |-> e.bb])
      [] stm.tag = "Jump" ->
           LET l == to_bb(b, stm.label)
           IN emit(l.b, [op |-> "br", target |-> l.bb])
      [] stm.tag = "Ret" ->
           LET v == to_value(b, stm.exp)
           IN emit(v.b, [op |-> "ret", v |-> v.v])
      [] stm.tag = "Store" ->
           LET v == to_value(b, stm.src)
               p == to_addr(v.b, stm.dst_addr)
           IN emit(p.b, [op |-> "store", v |-> v.v, p |-> p.v])
      [] stm.tag = "Load" ->
           LET p == to_addr(b, stm.src_addr)
               v == emitNamed(p.b, [op |-> "load", addr |-> p.v])
           IN storeDst(v.b, v.v, stm.dst)
      [] stm.tag = "Move" ->
           LET x == to_addr(b, stm.dst)
               v == to_value(x.b, stm.src)
           IN emit(v.b, [op |-> "store", v |-> v.v, p |-> x.v])
      [] stm.tag = "Call" ->
           LET f == to_addr(b, stm.fun)
               vs == to_values(f.b, stm.args)
               v == emitNamed(vs.b, [op |-> "call", f |-> f.v, args |-> vs.vs])
           IN storeDst(v.b, v.v, stm.dst)
      [] stm.tag = "Binary" ->
           LET a1 == to_value(b, stm.e1)
               a2 == to_value(a1.b, stm.e2)
               v == compute(a2.b, BopInsn(stm.op), a1.v, a2.v)
           IN storeDst(v.b, v.v, stm.dst)
      [] stm.tag = "Unary" ->
           LET e == to_value(b, stm.exp)
               v == compute(e.b, UopInsn(stm.op), e.v, e.v)
           IN storeDst(v.b, v.v, stm.dst)
      [] stm.tag = "Cast" ->
           LET t == to_type(stm.ty)
               e == to_value(b, stm.exp)
               v == emitNamed(e.b, [op |-> "bitcast", args |-> <<e.v>>, ty |-> t])
           IN storeDst(v.b, v.v, stm.dst)
      [] stm.tag \in {"GetStructElementAddr", "GetArrayElementAddr", "GetArrayLengthAddr"} ->
           panic(b)
      [] stm.tag \in {"Nop", "Label"} -> panic(b)

\* TempFinder::add_temps_for_exp
add_temps_for_exp(e) ==
    IF e.tag = "Temp" THEN {<<e.name, e.ty>>} ELSE {}

\* for arg in args { add_temps_for_exp(arg, temps) }
add_temps_for_exps(es) == UNION {add_temps_for_exp(es[i]) : i \in 1..Len(es)}

\* TempFinder::add_temps_for_stm
add_temps_for_stm(s) ==
    CASE s.tag \in {"Nop", "Jump", "Label"} -> {}
      [] s.tag = "CJump" -> add_temps_for_exp(s.cmp)
      [] s.tag = "Ret" -> add_temps_for_exp(s.exp)
      [] s.tag = "Store" -> add_temps_for_exp(s.dst_addr) \cup add_temps_for_exp(s.src)
      [] s.tag = "Load" -> add_temps_for_exp(s.dst) \cup add_temps_for_exp(s.src_addr)
      [] s.tag = "Move" -> add_temps_for_exp(s.dst) \cup add_temps_for_exp(s.src)
      [] s.tag = "Call" ->
           add_temps_for_exp(s.dst) \cup add_temps_for_exp(s.fun)
             \cup add_temps_for_exps(s.args)
      [] s.tag = "Binary" ->
           add_temps_for_exp(s.dst) \cup add_temps_for_exp(s.e1) \cup add_temps_for_exp(s.e2)
      [] s.tag \in {"Unary", "Cast"} -> add_temps_for_exp(s.dst) \cup add_temps_for_exp(s.exp)
      [] s.tag \in {"GetStructElementAddr", "GetArrayLengthAddr"} ->
           add_temps_for_exp(s.dst) \cup add_temps_for_exp(s.ptr)
      [] s.tag = "GetArrayElementAddr" ->
           add_temps_for_exp(s.dst) \cup add_temps_for_exp(s.ptr)
             \cup add_temps_for_exp(s.index)

\* The orders in which a HashSet holding the elements of S can be iterated.
Orders(S) ==
    {o \in [1..Cardinality(S) -> S] : \A x \in S : \E i \in 1..Cardinality(S) : o[i] = x}

Terminators == {"Jump", "CJump", "Ret"}

\* The translator's fields take the values of b.
commit(b) ==
    /\ blocks' = b.blocks
    /\ labels' = b.labels
    /\ fresh' = b.n

position == [cur |-> cur, len |-> Len(blocks[cur])]

\* translate, up to the statement loop: the entry block, the temporaries of
\* the body, one alloca for each that is not a parameter.  temps.insert
\* overwrites, so a name collected with two types keeps the alloca that the
\* iteration reaches last.
TranslateEntry ==
    /\ epc = "entry"
    /\ LET collected == UNION {add_temps_for_stm(body[i]) : i \in 1..Len(body)}
           slotted == {t \in collected : t[1] \notin params}
       IN \E o \in Orders(slotted) :
            /\ blocks' = << [i \in 1..Len(o) |->
                               [op |-> "alloca", id |-> fresh + i - 1, ty |-> to_type(o[i][2])]] >>
            /\ temps' = [x \in {t[1] : t \in slotted} |->
                           LET last == CHOOSE i \in 1..Len(o) :
                                         /\ o[i][1] = x
                                         /\ \A j \in (i + 1)..Len(o) : o[j][1] # x
                           IN InsnValue(fresh + last - 1)]
            /\ fresh' = fresh + Len(o)
    /\ cur' = 1
    /\ labels' = << >>
    /\ last_was_jump' = FALSE
    /\ ip' = 1
    /\ epc' = "loop"
    /\ prev' = [cur |-> 1, len |-> 0]
    /\ UNCHANGED <<body, params, root, pc, cc, defs, decls, varsSubst, varsModule>>

\* The loop of translate, Label arm.
TranslateLabel ==
    /\ epc = "loop" /\ ip <= Len(body)
    /\ body[ip].tag = "Label"
    /\ LET t == to_bb(Translator, body[ip].label)
           b == IF ~last_was_jump THEN emit(t.b, [op |-> "br", target |-> t.bb]) ELSE t.b
       IN commit(b) /\ cur' = t.bb
    /\ prev' = position
    /\ ip' = ip + 1
    /\ UNCHANGED <<body, params, epc, temps, last_was_jump, root, pc, cc, defs, decls, varsSubst, varsModule>>

\* The loop of translate, Nop arm.
SkipNop ==
    /\ epc = "loop" /\ ip <= Len(body)
    /\ body[ip].tag = "Nop"
    /\ prev' = position
    /\ ip' = ip + 1
    /\ UNCHANGED <<body, params, epc, temps, labels, blocks, cur, last_was_jump,
                   varsLift, varsSubst, varsModule>>

\* The loop of translate, every other statement.
TranslateStm ==
    /\ epc = "loop" /\ ip <= Len(body)
    /\ body[ip].tag \notin {"Label", "Nop"}
    /\ last_was_jump' = (body[ip].tag \in Terminators)
    /\ LET b == translate_stm(Translator, body[ip])
       IN /\ commit(b)
          /\ epc' = IF b.ok THEN "loop" ELSE "panic"
          /\ ip' = IF b.ok THEN ip + 1 ELSE ip
    /\ prev' = position
    /\ UNCHANGED <<body, params, temps, cur, root, pc, cc, defs, decls, varsSubst, varsModule>>

\* translate, after the loop.
TranslateEnd ==
    /\ epc = "loop" /\ ip > Len(body)
    /\ commit(IF ~last_was_jump THEN emit(Translator, [op |-> "unreachable"]) ELSE Translator)
    /\ epc' = "done"
    /\ prev' = position
    /\ UNCHANGED <<body, params, ip, temps, cur, last_was_jump, root, pc, cc, defs, decls,
                   varsSubst, varsModule>>

NextEmit ==
    \/ TranslateEntry
    \/ TranslateLabel
    \/ SkipNop
    \/ TranslateStm
    \/ TranslateEnd

(***************************************************************************)
(* Procedure bodies.                                                       *)
(***************************************************************************)
Temp(name, ty) == [tag |-> "Temp", name |-> NameNew(name), ty |-> LT(ty)]
LirLit(ty, value) == [tag |-> "Lit", lit |-> [tag |-> ty, value |-> value]]
Label(l) == [tag |-> "Label", label |-> NameNew(l)]
Nop == [tag |-> "Nop"]
Jump(l) == [tag |-> "Jump", label |-> NameNew(l)]
CJump(cmp, t, e) ==
    [tag |-> "CJump", cmp |-> cmp, if_true |-> NameNew(t), if_false |-> NameNew(e)]
Ret(exp) == [tag |-> "Ret", exp |-> exp]
Move(dst, src) == [tag |-> "Move", dst |-> dst, src |-> src]
Binary(dst, op, e1, e2) == [tag |-> "Binary", dst |-> dst, op |-> op, e1 |-> e1, e2 |-> e2]
Unary(dst, op, exp) == [tag |-> "Unary", dst |-> dst, op |-> op, exp |-> exp]

\* The formal parameters of the procedure: p.
ProcParams == {NameNew("p")}

\* Control flow: every sequence of at most MaxBody of these statements, and
\* the body of scenario S4.
MaxBody == 4

CfgStms ==
    {Label("L1"), Label("L2"), Nop, Jump("L1"), Jump("L2"),
     CJump(Temp("p", "I1"), "L1", "L2"), Ret(LirLit("I32", 0)),
     Move(Temp("t", "I32"), LirLit("I32", 1))}

S4_Body ==
    <<Label("L1"), Binary(Temp("t", "I32"), "Add_i32", Temp("t", "I32"), LirLit("I32", 1)),
      Jump("L2"), Label("L2"), Ret(LirLit("I32", 0))>>

CfgBodies == UNION {[1..n -> CfgStms] : n \in 0..MaxBody} \cup {S4_Body}

InitEmit ==
    /\ body \in CfgBodies
    /\ params = ProcParams
    /\ epc = "entry" /\ ip = 0
    /\ labels = << >> /\ temps = << >> /\ blocks = << >>
    /\ cur = 0 /\ last_was_jump = FALSE /\ prev = [cur |-> 0, len |-> 0]
    /\ IdleLift
    /\ IdleSubst
    /\ IdleModule

SpecEmit == InitEmit /\ [][NextEmit]_vars

(***************************************************************************)
(* Vocabulary of the emitter's properties.                                 *)
(***************************************************************************)
\* Labels are unique and every Jump/CJump target occurs as a Label.
WellFormedLabels(b) ==
    /\ \A i, j \in 1..Len(b) :
         (b[i].tag = "Label" /\ b[j].tag = "Label" /\ b[i].label = b[j].label) => i = j
    /\ \A i \in 1..Len(b) :
         LET used == IF b[i].tag = "Jump" THEN {b[i].label}
                     ELSE IF b[i].tag = "CJump" THEN {b[i].if_true, b[i].if_false}
                     ELSE {}
         IN \A l \in used : \E j \in 1..Len(b) : b[j].tag = "Label" /\ b[j].label = l

IsTerminator(insn) == insn.op \in {"br", "cond_br", "ret", "unreachable"}

targets(insn) ==
    IF insn.op = "br" THEN {insn.target}
    ELSE IF insn.op = "cond_br" THEN {insn.t, insn.e}
    ELSE {}

\* What the last step appended at the position the builder had before it.
emitted == SubSeq(blocks[prev.cur], prev.len + 1, Len(blocks[prev.cur]))

\* The statement the loop visited last (none before the first).
visited == body[ip - 1]

(***************************************************************************)
(* C2: for a body with well-formed labels, once translate has finished     *)
(* every basic block of the function (the entry block and the block of     *)
(* every label) ends in a terminator (br, cond_br, ret, unreachable) and   *)
(* every br/cond_br targets a block of the same function.                  *)
(***************************************************************************)
C2_BlocksEndInTerminator ==
    (epc = "done" /\ WellFormedLabels(body)) =>
        \A k \in 1..Len(blocks) :
            /\ blocks[k] # << >>
            /\ IsTerminator(blocks[k][Len(blocks[k])])
            /\ \A i \in 1..Len(blocks[k]) : targets(blocks[k][i]) \subseteq 1..Len(blocks)

(***************************************************************************)
(* C9: on Label(l) a fall-through br to l's block is inserted if and only  *)
(* if the previous statement was not a terminator (Jump, CJump, Ret); for  *)
(* the body of S4 the function has the blocks L1 and L2, L1 ends in br L2  *)
(* and holds no other branch, and L2 ends in ret.                          *)
(***************************************************************************)
C9_FallThroughBranch ==
    /\ (epc = "loop" /\ ip > 1 /\ visited.tag = "Label") =>
          LET afterTerminator == ip > 2 /\ body[ip - 2].tag \in Terminators
          IN IF afterTerminator
             THEN emitted = << >>
             ELSE emitted = << [op |-> "br", target |-> labels[visited.label]] >>
    /\ (epc = "done" /\ body = S4_Body) =>
          LET l1 == labels[NameNew("L1")]
              l2 == labels[NameNew("L2")]
          IN /\ Len(blocks) = 3
             /\ blocks[l1][Len(blocks[l1])] = [op |-> "br", target |-> l2]
             /\ \A i \in 1..(Len(blocks[l1]) - 1) : ~IsTerminator(blocks[l1][i])
             /\ Len(blocks[l2]) = 1 /\ blocks[l2][1].op = "ret"

(***************************************************************************)
(* C10: after the last statement, `unreachable` is appended as the last    *)
(* instruction if the last statement of the body was not a terminator      *)
(* (Jump, CJump, Ret): an empty body, a body ending in Binary or Move, a   *)
(* body whose last statement is a Label or a Nop.                          *)
(***************************************************************************)
C10_TrailingUnreachable ==
    (epc = "done" /\ (body = << >> \/ body[Len(body)].tag \notin Terminators)) =>
        /\ emitted = << [op |-> "unreachable"] >>
        /\ blocks[cur][Len(blocks[cur])].op = "unreachable"

(***************************************************************************)
(* Data statements: one statement of every kind and operator, over a       *)
(* temporary with a slot (a, t1), the parameter p and a literal, alone and *)
(* inside a labelled block.                                                *)
(***************************************************************************)
Global(name, ty) == [tag |-> "Global", name |-> NameNew(name), ty |-> LT(ty)]
Function(name, ty) == [tag |-> "Function", name |-> NameNew(name), ty |-> ty]
Store(dst_addr, src) == [tag |-> "Store", dst_addr |-> dst_addr, src |-> src]
Load(dst, src_addr) == [tag |-> "Load", dst |-> dst, src_addr |-> src_addr]
Call(dst, fun, args) == [tag |-> "Call", dst |-> dst, fun |-> fun, args |-> args]
Cast(dst, ty, exp) == [tag |-> "Cast", dst |-> dst, ty |-> ty, exp |-> exp]
GetStructElementAddr(dst, struct_ty, ptr, field) ==
    [tag |-> "GetStructElementAddr", dst |-> dst, struct_ty |-> struct_ty, ptr |-> ptr,
     field |-> field]
GetArrayElementAddr(dst, base_ty, ptr, index) ==
    [tag |-> "GetArrayElementAddr", dst |-> dst, base_ty |-> base_ty, ptr |-> ptr,
     index |-> index]
GetArrayLengthAddr(dst, ptr) == [tag |-> "GetArrayLengthAddr", dst |-> dst, ptr |-> ptr]

Operands == {Temp("a", "I32"), Temp("p", "I32"), LirLit("I32", 3)}
Dsts == {Temp("t1", "I32"), Temp("p", "I32")}
Addrs == {Temp("a", "I32"), Temp("p", "I32"), Global("g", "I32")}

OpStms ==
    {Binary(d, op, e1, e2) : d \in Dsts, op \in Bops, e1 \in Operands, e2 \in Operands}
    \cup {Unary(d, op, e) : d \in Dsts, op \in Uops, e \in Operands}
    \cup {Move(d, e) : d \in Dsts, e \in Operands \cup {Temp("a", "I64")}}
    \cup {Load(d, a) : d \in Dsts, a \in Addrs}
    \cup {Store(a, e) : a \in Addrs, e \in Operands}
    \cup {Cast(d, LT("I64"), e) : d \in Dsts, e \in Operands}
    \cup {Call(d, Function("f", TFun(LT("I32"), <<LT("I32")>>)), <<e>>) :
            d \in Dsts, e \in Operands}
    \cup {GetStructElementAddr(d, [tag |-> "Struct", fields |-> <<LT("I32")>>],
                               Temp("a", "I32"), 0) : d \in Dsts}
    \cup {GetArrayElementAddr(d, LT("I32"), Temp("a", "I32"), LirLit("I32", 3)) : d \in Dsts}
    \cup {GetArrayLengthAddr(d, Temp("a", "I32")) : d \in Dsts}

OpBodies ==
    {<<s>> : s \in OpStms}
    \cup {<<Label("L1"), s, Nop, Ret(Temp("a", "I32"))>> : s \in OpStms}

InitOps ==
    /\ body \in OpBodies
    /\ params = ProcParams
    /\ epc = "entry" /\ ip = 0
    /\ labels = << >> /\ temps = << >> /\ blocks = << >>
    /\ cur = 0 /\ last_was_jump = FALSE /\ prev = [cur |-> 0, len |-> 0]
    /\ IdleLift
    /\ IdleSubst
    /\ IdleModule

SpecOps == InitOps /\ [][NextEmit]_vars

\* The statement handed to translate_stm last: the one that panicked, or
\* the one the loop has just left.
handed == IF epc = "panic" THEN body[ip] ELSE body[ip - 1]

stmHanded == epc = "panic" \/ (epc = "loop" /\ ip > 1)

\* The operator of a Binary or Unary statement is not in the unsupported list.
supported(s) ==
    IF s.tag = "Binary" THEN BopInsn(s.op).kind # "unimplemented"
                        ELSE UopInsn(s.op).kind # "unimplemented"

\* The operands of a Binary or Unary statement that are non-parameter Temps.
slotOperands(s) ==
    SelectSeq(IF s.tag = "Binary" THEN <<s.e1, s.e2>> ELSE <<s.exp>>,
              LAMBDA e : e.tag = "Temp" /\ e.name \notin params)

(***************************************************************************)
(* C5: a Binary or Unary statement whose operator is not in the            *)
(* unsupported list emits exactly: one load per operand that is a          *)
(* non-parameter Temp (from that operand's slot, in operand order), then   *)
(* one computing instruction (a native instruction or an intrinsic call),  *)
(* then one store of its result to dst's slot.  Binary{t1, Add_i32,        *)
(* Temp a, Lit 3} emits load(slot a), add, store(slot t1).                 *)
(***************************************************************************)
C5_OperatorEmission ==
    /\ (stmHanded /\ handed.tag \in {"Binary", "Unary"} /\ supported(handed)) =>
          LET ld == slotOperands(handed)
              n == Len(ld)
          IN /\ Len(emitted) = n + 2
             /\ \A i \in 1..n :
                  emitted[i].op = "load" /\ emitted[i].addr = temps[ld[i].name]
             /\ emitted[n + 1].op \notin {"load", "store", "alloca", "br", "cond_br", "ret",
                                          "unreachable"}
             /\ handed.dst.name \in DOMAIN temps
             /\ emitted[n + 2] = [op |-> "store", v |-> InsnValue(emitted[n + 1].id),
                                  p |-> temps[handed.dst.name]]
    /\ (stmHanded /\ handed = Binary(Temp("t1", "I32"), "Add_i32", Temp("a", "I32"),
                                     LirLit("I32", 3))) =>
          /\ Len(emitted) = 3
          /\ emitted[1].op = "load" /\ emitted[1].addr = temps[NameNew("a")]
          /\ emitted[2].op = "add"
          /\ emitted[2].args = <<InsnValue(emitted[1].id), Const("i32", 3)>>
          /\ emitted[3] = [op |-> "store", v |-> InsnValue(emitted[2].id),
                           p |-> temps[NameNew("t1")]]

\* The temporaries TempFinder collects from the body.
collectedTemps == UNION {add_temps_for_stm(body[i]) : i \in 1..Len(body)}

\* The same temporary name occurs in the body with two different types.
TempCollision ==
    \E t1, t2 \in collectedTemps : t1[1] = t2[1] /\ t1[2] # t2[2]

(***************************************************************************)
(* C11: if the same temporary name occurs in the body with two different   *)
(* types, translation fails when the temporaries are collected: no slot is *)
(* allocated, no instruction is emitted and no statement is translated.    *)
(***************************************************************************)
C11_TempCollisionRejected ==
    (TempCollision /\ epc # "entry") =>
        /\ epc = "panic"
        /\ temps = << >>
        /\ \A k \in 1..Len(blocks) : blocks[k] = << >>

\* The unsupported list: Atan2, the inverse and hyperbolic functions, the
\* float classification tests and Logb, at f32 and f64.
UnsupportedOps ==
    {"Atan2_f32", "Atan2_f64", "Logb_f32", "Logb_f64",
     "Asin_f32", "Acos_f32", "Atan_f32", "Sinh_f32", "Cosh_f32", "Tanh_f32",
     "Asinh_f32", "Acosh_f32", "Atanh_f32",
     "Asin_f64", "Acos_f64", "Atan_f64", "Sinh_f64", "Cosh_f64", "Tanh_f64",
     "Asinh_f64", "Acosh_f64", "Atanh_f64",
     "IsNan_f32", "IsInf_f32", "IsDenormalized_f32", "IsNegativeZero_f32", "IsIEEE_f32",
     "IsNan_f64", "IsInf_f64", "IsDenormalized_f64", "IsNegativeZero_f64", "IsIEEE_f64"}

unsupportedStm(s) == s.tag \in {"Binary", "Unary"} /\ s.op \in UnsupportedOps

(***************************************************************************)
(* C12: translating a Binary or Unary statement whose operator is in the   *)
(* unsupported list fails: beyond the loads of its operands nothing is     *)
(* emitted for it (no computing instruction, no store), translation stops  *)
(* there, and no later statement is translated.                            *)
(***************************************************************************)
C12_UnsupportedOperator ==
    /\ (stmHanded /\ unsupportedStm(handed)) =>
          /\ epc = "panic"
          /\ Len(emitted) = Len(slotOperands(handed))
          /\ \A i \in 1..Len(emitted) : emitted[i].op = "load"
    /\ \A i \in 1..Len(body) : unsupportedStm(body[i]) => (ip <= i /\ epc # "done")

C12_Witness ==
    /\ epc = "panic"
    /\ Len(body) = 4
    /\ handed.tag = "Binary" /\ handed.op = "Atan2_f32"
    /\ handed.e1.tag = "Temp" /\ handed.e1.name \notin params
    /\ Len(emitted) >= 1

\* Some Jump or CJump of the body targets a label that occurs in no Label
\* statement of the body.
MissingLabelTarget ==
    \E i \in 1..Len(body) :
        LET used == IF body[i].tag = "Jump" THEN {body[i].label}
                    ELSE IF body[i].tag = "CJump" THEN {body[i].if_true, body[i].if_false}
                    ELSE {}
        IN \E l \in used : \A j \in 1..Len(body) : ~(body[j].tag = "Label" /\ body[j].label = l)

(***************************************************************************)
(* C13: a body in which a Jump or CJump targets a label that never occurs  *)
(* as a Label statement is rejected: translate does not run to completion  *)
(* on it, so no function is produced for it.                               *)
(***************************************************************************)
C13_MissingLabelRejected ==
    MissingLabelTarget => epc # "done"

\* The ApplyCC nodes of a HIR/CC tree whose fun_type is not a Fun type.
nonFunApplyCC(c) == {t \in subtrees(c) : t.tag = "ApplyCC" /\ t.fun_type.tag # "Fun"}

\* The definition holds an Apply whose fun_type is not a Fun type
\* (closure conversion turns each into such an ApplyCC).
NonFunApply(d) == \E t \in defNodes(d) : t.tag = "Apply" /\ t.fun_type.tag # "Fun"

(***************************************************************************)
(* C14: lifting fails exactly on an ApplyCC whose fun_type is not a Fun    *)
(* type.  If the lift of a converted definition fails, the definition      *)
(* holds such an ApplyCC; if it succeeds, it holds none; and a root with   *)
(* such an ApplyCC in some definition never yields an output root: that    *)
(* definition is never pushed and Lift::lift never returns.                *)
(***************************************************************************)
C14_ApplyCCFunType ==
    /\ pc = "panic" => nonFunApplyCC(cc) # {}
    /\ (pc = "loop" /\ cc # NoTree) => nonFunApplyCC(cc) = {}
    /\ pc = "lift" => (nonFunApplyCC(cc) # {} <=> NonFunApply(curDef))
    /\ \A i \in 1..Len(root) : NonFunApply(root[i]) => (pc # "done" /\ Len(defs) < i)

C14_Witness ==
    /\ pc = "panic"
    /\ \E t \in nonFunApplyCC(cc) : t.fun.tag = "StructLit"
    /\ defs = << >>

\* The rotate operators with their intrinsic and width.
Rotates ==
    {<<"Rotl_i32", "llvm.fshl.i32", "I32">>, <<"Rotl_i64", "llvm.fshl.i64", "I64">>,
     <<"Rotr_i32", "llvm.fshr.i32", "I32">>, <<"Rotr_i64", "llvm.fshr.i64", "I64">>}

\* The value translate_stm uses for an operand, given the load emitted for
\* it (if it is a Temp with a slot).
operandValue(e, ld) ==
    IF e.tag = "Lit" THEN to_value_lit(e.lit)
    ELSE IF e.name \in params THEN [k |-> "param", name |-> e.name]
    ELSE InsnValue(ld.id)

(***************************************************************************)
(* C15: a Binary statement with a rotate operator emits, after the loads   *)
(* of its operands, one call to the funnel-shift intrinsic (llvm.fshl.iN   *)
(* for Rotl_iN, llvm.fshr.iN for Rotr_iN) with the arguments (a, a, b),    *)
(* where the intrinsic has three argument types and a return type of the   *)
(* operator's width, and then stores the call's result to dst's slot.      *)
(***************************************************************************)
C15_RotateIntrinsic ==
    \A r \in Rotates :
        (stmHanded /\ handed.tag = "Binary" /\ handed.op = r[1]) =>
            LET n == Len(slotOperands(handed))
                n1 == IF handed.e1.tag = "Temp" /\ handed.e1.name \notin params THEN 1 ELSE 0
                a == operandValue(handed.e1, emitted[1])
                b == operandValue(handed.e2, emitted[n])
                call == emitted[n + 1]
            IN /\ Len(emitted) = n + 2
               /\ \A i \in 1..n : emitted[i].op = "load"
               /\ call.op = "call"
               /\ call.f = [k |-> "function", name |-> NameNew(r[2])]
               /\ call.args = <<a, a, b>>
               /\ BopInsn(r[1]).tys = <<LT(r[3]), LT(r[3]), LT(r[3])>>
               /\ BopInsn(r[1]).ret = LT(r[3])
               /\ handed.dst.name \in DOMAIN temps
               /\ emitted[n + 2] = [op |-> "store", v |-> InsnValue(call.id),
                                    p |-> temps[handed.dst.name]]

\* d is an image of the input definition o: same kind, name, type and
\* parameters; an ExternDef unchanged.
imageOf(d, o) ==
    /\ d.tag = o.tag
    /\ d.name = o.name
    /\ CASE o.tag = "VarDef"    -> d.ty = o.ty
         [] o.tag = "FunDef"    -> d.ret_type = o.ret_type /\ d.params = o.params
         [] o.tag = "ExternDef" -> d = o

\* The number of Lambda nodes of the input root.
lambdasOf(r) ==
    sumSeq([i \in 1..Len(r) |->
              IF r[i].tag = "ExternDef" THEN 0 ELSE countTag(defExp(r[i]), "Lambda")])

(***************************************************************************)
(* C16: in the root Lift::lift returns, the first |root.defs| definitions  *)
(* are the images of the input definitions in their original order (same   *)
(* kind, name, type and parameters; ExternDef unchanged) and the hoisted    *)
(* FunDefs, one per Lambda of the input, all come after them.  While the    *)
(* definitions are being lifted, defs holds only such images, in order.     *)
(***************************************************************************)
C16_DefOrder ==
    /\ pc \in {"loop", "lift", "panic"} =>
          /\ Len(defs) <= Len(root)
          /\ \A i \in 1..Len(defs) : imageOf(defs[i], root[i])
    /\ pc = "done" =>
          /\ Len(defs) = Len(root) + lambdasOf(root)
          /\ \A i \in 1..Len(root) : imageOf(defs[i], root[i])
          /\ \A i \in (Len(root) + 1)..Len(defs) :
                /\ defs[i].tag = "FunDef"
                /\ IsFresh(defs[i].name)
                /\ \A j \in 1..Len(root) : defs[i].name # root[j].name

C16_Witness ==
    /\ pc = "done"
    /\ Len(root) = 3
    /\ Len(defs) = 5
    /\ defs[2] = ExternDef

\* The closure records of a HIR/CC tree, at any depth.
closureRecords(c) == {r \in subtrees(c) : IsClosureRecord(r)}

\* Of a closure record: the fields of the internal env type, the fields of
\* the env literal, and the StructLoads of the body that read the env.
envTypeFields(r) == r.fields[1].exp.env_param.ty.fields
envLitFields(r) == r.fields[2].exp.exp.fields
envLoads(r) ==
    {t \in subtrees(r.fields[1].exp.body) :
        /\ t.tag = "StructLoad"
        /\ t.base.tag = "Var"
        /\ t.base.name = r.fields[1].exp.env_param.name}

(***************************************************************************)
(* C17: for every converted Lambda the internal env type, the env literal  *)
(* of the closure-creation site and the StructLoads substituted into the   *)
(* body agree: both field lists have the same length, the i-th field of    *)
(* the env type has the name of the i-th field of the env literal, no name *)
(* occurs twice, and every StructLoad from the env names a field of the    *)
(* env type and carries that env type.                                     *)
(***************************************************************************)
C17_EnvFieldsAgree ==
    (cc # NoTree) =>
        \A r \in closureRecords(cc) :
            LET T == envTypeFields(r)
                L == envLitFields(r)
            IN /\ Len(T) = Len(L)
               /\ \A i \in 1..Len(T) : T[i].name = L[i].param.name /\ T[i].ty = L[i].param.ty
               /\ \A i, j \in 1..Len(T) : T[i].name = T[j].name => i = j
               /\ \A t \in envLoads(r) :
                     /\ \E i \in 1..Len(T) : T[i].name = t.field
                     /\ t.ty = r.fields[1].exp.env_param.ty

C17_Witness ==
    /\ pc = "lift"
    /\ \E r \in closureRecords(cc) :
          /\ Len(envTypeFields(r)) = 2
          /\ Cardinality({t.field : t \in envLoads(r)}) = 2

\* The number of Var nodes named n in the HIR/CC tree e, bound or free.
RECURSIVE varOcc(_, _)
varOcc(e, n) ==
    (IF e.tag = "Var" /\ e.name = n THEN 1 ELSE 0)
    + sumSeq([j \in 1..Len(kids(e)) |-> varOcc(kids(e)[j], n)])

\* The substitution s without the names of ns.
without(s, ns) == [x \in (DOMAIN s) \ ns |-> s[x]]

(***************************************************************************)
(* C18: substitution respects binders.  In subst(Let {inits, body}, s) the *)
(* initialisers are substituted with s and the body with s minus the names *)
(* the inits bind; in subst(LambdaCC {env_param, params, body}, s) the     *)
(* body is substituted with s minus env_param and every parameter name.    *)
(* Consequently the Var occurrences of a name of dom(s) that a Let or      *)
(* LambdaCC inside e binds are all still there, and only those (the images *)
(* drawn for s hold no user name).                                         *)
(***************************************************************************)
C18_SubstBinders ==
    (sub_r # NoTree) =>
        /\ sub_e.tag = "Let" =>
              /\ sub_r.tag = "Let"
              /\ Len(sub_r.inits) = Len(sub_e.inits)
              /\ \A j \in 1..Len(sub_e.inits) :
                    /\ sub_r.inits[j].param = sub_e.inits[j].param
                    /\ sub_r.inits[j].exp = subst(sub_e.inits[j].exp, sub_s)
              /\ sub_r.body = subst(sub_e.body, without(sub_s, initNames(sub_e.inits)))
        /\ IsClosureRecord(sub_e) =>
              LET l == sub_e.fields[1].exp
                  r == sub_r.fields[1].exp
              IN /\ r.tag = "LambdaCC"
                 /\ r.env_param = l.env_param /\ r.params = l.params
                 /\ r.body = subst(l.body, without(sub_s, {l.env_param.name}
                                                             \cup paramNames(l.params)))
        /\ \A n \in DOMAIN sub_s :
              varOcc(sub_r, n) = varOcc(sub_e, n) - freeVarOcc(sub_e, n)

C18_Witness ==
    /\ sub_r # NoTree
    /\ sub_e.tag = "Let"
    /\ sub_r # sub_e
    /\ \E n \in (DOMAIN sub_s) \cap initNames(sub_e.inits) :
          varOcc(sub_e.body, n) > 0 /\ varOcc(sub_r.body, n) = varOcc(sub_e.body, n)

\* The nodes of the input root's expressions.
rootNodes == UNION {defNodes(root[i]) : i \in 1..Len(root)}

\* The names some Let or Lambda of the HIR tree e binds.
namesBoundIn(e) ==
    UNION {CASE nd.tag = "Let"    -> initNames(nd.inits)
             [] nd.tag = "Lambda" -> paramNames(nd.params)
             [] OTHER             -> {}
           : nd \in subtrees(e)}

\* Scenario inputs for the free-variable equations.
LetSelf == LetE(NameNew("x"), VarE(NameNew("x")), VarE(NameNew("x")))
LetShadow == LetE(NameNew("x"), LitE, VarE(NameNew("x")))
AssignOuter == LambdaE(<< >>, SeqE(AssignS(NameNew("x"), LitE), LitE))

(***************************************************************************)
(* C19: fv(Let {inits, body}) = (fv(body) \ {f.name | f in inits}) united  *)
(* with the fv of every initialiser: a name the Let binds that also occurs *)
(* free in one of its own initialisers is free in the Let (parallel let).  *)
(* So fv(let x = x in x) = {x}, while fv(let x = 7 in x) = {}.             *)
(***************************************************************************)
C19_FvLet ==
    /\ \A t \in rootNodes :
          t.tag = "Let" =>
              fv(t) = (fv(t.body) \ {t.inits[j].param.name : j \in 1..Len(t.inits)})
                      \cup UNION {fv(t.inits[j].exp) : j \in 1..Len(t.inits)}
    /\ LetSelf \in rootNodes => fv(LetSelf) = {NameNew("x")}
    /\ LetShadow \in rootNodes => fv(LetShadow) = {}
    /\ (pc = "lift" /\ curDef = VarDef(LambdaE(<< >>, LetSelf))) =>
          [j \in 1..Len(envLitFields(cc)) |-> envLitFields(cc)[j].param.name]
              = << NameNew("x") >>

C19_Witness ==
    /\ pc = "lift"
    /\ curDef = VarDef(LambdaE(<< >>, LetSelf))
    /\ IsClosureRecord(cc)

(***************************************************************************)
(* C20: fv(Assign {lhs, rhs}) = fv(rhs) united with {lhs}: the assigned    *)
(* name counts as a free variable, so a Lambda whose body assigns to an    *)
(* outer variable x has x in its captured set: x is a field of its env.    *)
(***************************************************************************)
C20_FvAssign ==
    /\ \A t \in rootNodes :
          /\ t.tag = "Assign" => fv(t) = fv(t.rhs) \cup {t.lhs}
          /\ t.tag = "Lambda" =>
                \A a \in subtrees(t.body) :
                    (a.tag = "Assign" /\ a.lhs \notin namesBoundIn(t)) => a.lhs \in fv(t)
    /\ (pc = "lift" /\ curDef = VarDef(AssignOuter)) =>
          [j \in 1..Len(envTypeFields(cc)) |-> envTypeFields(cc)[j].name] = << NameNew("x") >>

C20_Witness ==
    /\ pc = "lift"
    /\ curDef = VarDef(AssignOuter)
    /\ IsClosureRecord(cc)
    /\ Len(envLitFields(cc)) = 1

\* The collected temporaries that get a slot: those whose name is not a
\* formal parameter.
slotted == {t \in collectedTemps : t[1] \notin params}

\* The allocas of the entry block, in emission order.
allocas == SelectSeq(blocks[1], LAMBDA i : i.op = "alloca")

\* The value of the formal parameter named n.
ParamValue(n) == [k |-> "param", name |-> n]

(***************************************************************************)
(* C21: before any statement of the body is translated the entry block     *)
(* holds exactly one alloca, of the translated type, for every collected   *)
(* temporary whose name is not a formal parameter and none for a formal    *)
(* parameter; allocas occur nowhere else; from then on the slot table's    *)
(* domain is the collected names minus the parameter names and each slot   *)
(* is an alloca of the entry block, distinct names having distinct slots;  *)
(* reading a parameter Temp yields the incoming value and emits no load.   *)
(***************************************************************************)
C21_SlotAllocation ==
    /\ (epc = "loop" /\ ip = 1) =>
          /\ Len(blocks) = 1
          /\ \A i \in 1..Len(blocks[1]) : blocks[1][i].op = "alloca"
    /\ epc # "entry" =>
          /\ Len(allocas) = Cardinality(slotted)
          /\ SubSeq(blocks[1], 1, Len(allocas)) = allocas
          /\ \A i, j \in 1..Len(allocas) : allocas[i].id = allocas[j].id => i = j
          /\ \A ty \in {to_type(t[2]) : t \in slotted} :
                Cardinality({i \in 1..Len(allocas) : allocas[i].ty = ty})
                    = Cardinality({t \in slotted : to_type(t[2]) = ty})
          /\ \A k \in 2..Len(blocks) : \A i \in 1..Len(blocks[k]) : blocks[k][i].op # "alloca"
          /\ DOMAIN temps = {t[1] : t \in collectedTemps} \ params
          /\ \A x \in DOMAIN temps :
                \E i \in 1..Len(allocas) :
                    /\ temps[x] = InsnValue(allocas[i].id)
                    /\ \E t \in slotted : t[1] = x /\ allocas[i].ty = to_type(t[2])
          /\ \A x, y \in DOMAIN temps : temps[x] = temps[y] => x = y
    /\ (stmHanded /\ handed.tag = "Move" /\ handed.dst.name \notin params
          /\ handed.src.tag = "Temp" /\ handed.src.name \in params) =>
          emitted = << [op |-> "store", v |-> ParamValue(handed.src.name),
                        p |-> temps[handed.dst.name]] >>
    /\ (stmHanded /\ handed.tag = "Store" /\ handed.dst_addr.tag = "Global"
          /\ handed.src.tag = "Temp" /\ handed.src.name \in params) =>
          emitted = << [op |-> "store", v |-> ParamValue(handed.src.name),
                        p |-> [k |-> "global", name |-> handed.dst_addr.name]] >>

C21_Witness ==
    /\ epc = "loop" /\ ip = 3
    /\ handed = Move(Temp("t1", "I32"), Temp("p", "I32"))
    /\ DOMAIN temps = {NameNew("t1"), NameNew("a")}
    /\ Len(allocas) = 2
    /\ Len(emitted) = 1

\* The labels a statement hands to to_bb, in call order.
labelRefs(s) ==
    CASE s.tag \in {"Label", "Jump"} -> << s.label >>
      [] s.tag = "CJump" -> << s.if_true, s.if_false >>
      [] OTHER -> << >>

\* The elements of a sequence in order of first occurrence.
RECURSIVE distinct(_)
distinct(s) ==
    IF s = << >> THEN << >>
    ELSE LET d == distinct(SubSeq(s, 1, Len(s) - 1))
             x == s[Len(s)]
         IN IF \E i \in 1..Len(d) : d[i] = x THEN d ELSE Append(d, x)

\* The distinct labels the first k statements of the body refer to, in
\* order of first reference.
firstSeen(k) == distinct(concatAll([i \in 1..k |-> labelRefs(body[i])]))

(***************************************************************************)
(* C22: each label maps to exactly one basic block for the whole           *)
(* procedure: the block is created the first time the label is seen (as a  *)
(* Jump/CJump target or as a Label statement), every later reference in    *)
(* either role returns that block, distinct labels have distinct blocks,   *)
(* and the function has 1 (entry) plus the number of distinct labels       *)
(* referenced blocks.  A Label statement positions the builder at its      *)
(* label's block.                                                          *)
(***************************************************************************)
C22_OneBlockPerLabel ==
    epc \in {"loop", "done"} =>
        LET seen == firstSeen(ip - 1)
        IN /\ DOMAIN labels = {seen[i] : i \in 1..Len(seen)}
           /\ \A i \in 1..Len(seen) : labels[seen[i]] = i + 1
           /\ Len(blocks) = 1 + Len(seen)
           /\ (ip > 1 /\ visited.tag = "Label" /\ epc = "loop") => cur = labels[visited.label]
           /\ (ip > 1 /\ visited.tag = "Jump" /\ epc = "loop") =>
                 emitted = << [op |-> "br", target |-> labels[visited.label]] >>
           /\ (ip > 1 /\ visited.tag = "CJump" /\ epc = "loop") =>
                 /\ Len(emitted) = 1
                 /\ emitted[1].t = labels[visited.if_true]
                 /\ emitted[1].e = labels[visited.if_false]

C22_Witness ==
    /\ epc = "done"
    /\ body = << Jump("L2"), Label("L1"), Jump("L1"), Label("L2") >>
    /\ labels[NameNew("L2")] = 2 /\ labels[NameNew("L1")] = 3
    /\ Len(blocks) = 3

GetAddrTags == {"GetStructElementAddr", "GetArrayElementAddr", "GetArrayLengthAddr"}

(***************************************************************************)
(* C23: translating a GetStructElementAddr, GetArrayElementAddr or         *)
(* GetArrayLengthAddr statement completes without aborting and emits       *)
(* pointer arithmetic whose result, an address, is stored to dst; the      *)
(* array length is at offset 0 and the elements start at the base offset,  *)
(* one word.                                                               *)
(***************************************************************************)
C23_GetAddr ==
    /\ to_value_lit([tag |-> "ArrayLengthOffset"]) = Const("i64", 0)
    /\ to_value_lit([tag |-> "ArrayBaseOffset"]) = Const("i64", WORDSIZE)
    /\ (stmHanded /\ handed.tag \in GetAddrTags /\ handed.dst.name \notin params) =>
          /\ epc # "panic"
          /\ emitted # << >>
          /\ emitted[Len(emitted)].op = "store"
          /\ emitted[Len(emitted)].p = temps[handed.dst.name]

\* The FunDefs Lift::lift hoisted: those with a fresh name.
hoisted(ds) == {j \in 1..Len(ds) : ds[j].tag = "FunDef" /\ IsFresh(ds[j].name)}

(***************************************************************************)
(* C24: every hoisted function is closed with respect to its own           *)
(* parameters: every name free in the body of a FunDef that Lift::lift     *)
(* appended for a Lambda, as a Var or as the target of an Assign, is one   *)
(* of the function's parameters (the original ones or env_ptr) or the name *)
(* of a hoisted function; no variable of the lambda's enclosing scope is   *)
(* referenced by name, also when the lambda body assigns to a captured     *)
(* variable.                                                               *)
(***************************************************************************)
C24_HoistedClosed ==
    pc = "done" =>
        \A j \in hoisted(defs) :
            fvCC(defs[j].body) \subseteq
                paramNames(defs[j].params) \cup {defs[k].name : k \in hoisted(defs)}

\* The application sites of the lifted output: the Lets that bind a fresh
\* `closure` around an Apply.
appSites(e) ==
    {t \in subtrees(e) :
        /\ t.tag = "Let" /\ Len(t.inits) = 1
        /\ t.inits[1].param.name[1] = "closure" /\ IsFresh(t.inits[1].param.name)
        /\ t.body.tag = "Apply"}

\* The type of the field `fun` of a closure struct type.
funFieldType(ct) == ct.fields[1].ty

(***************************************************************************)
(* C25: closure types agree between creation and application: at every    *)
(* lifted application site the type declared for the `fun` field in the   *)
(* closure struct type (the type `closure` is bound at and closure.fun is  *)
(* loaded at) equals the fun_type of the generated Apply, the function     *)
(* type with the trailing Struct{} env argument; and where the applied     *)
(* expression is a lambda of that signature, this is the type of the `fun` *)
(* field of the closure record closure conversion built for it.            *)
(***************************************************************************)
C25_ClosureTypesAgree ==
    (pc = "loop" /\ cc # NoTree) =>
        \A t \in appSites(defExp(defs[Len(defs)]))
                   \cup UNION {appSites(decls[j].body) : j \in 1..Len(decls)} :
            /\ funFieldType(t.inits[1].param.ty) = t.body.fun_type
            /\ funFieldType(t.body.fun.ty) = t.body.fun_type
            /\ t.body.fun_type.args[Len(t.body.fun_type.args)] = TStruct(<< >>)
            /\ (t.inits[1].exp.tag = "StructLit"
                  /\ Len(t.inits[1].exp.fields[1].param.ty.args) = Len(t.body.fun_type.args)) =>
                  t.inits[1].exp.fields[1].param.ty = t.body.fun_type

\* A br, cond_br or ret: an instruction that ends a block.
IsBranch(insn) == insn.op \in {"br", "cond_br", "ret"}

(***************************************************************************)
(* C26: in every emitted basic block a terminator, if present, is the last *)
(* instruction and there is at most one: no instruction (store, load,      *)
(* operator, br, ret, unreachable) is appended to a block after a br,      *)
(* cond_br or ret has been emitted into it, also when non-label statements *)
(* follow a Jump, CJump or Ret before the next Label.                      *)
(***************************************************************************)
C26_TerminatorLast ==
    \A k \in 1..Len(blocks) :
        \A i \in 1..Len(blocks[k]) :
            IsBranch(blocks[k][i]) => i = Len(blocks[k])

\* The names of the Temps a statement hands to to_addr: its destination
\* and its address operands.
addrTemps(s) ==
    LET name(e) == IF e.tag = "Temp" THEN {e.name} ELSE {}
    IN CASE s.tag \in {"Move", "Binary", "Unary", "Cast"} -> name(s.dst)
         [] s.tag = "Load" -> name(s.dst) \cup name(s.src_addr)
         [] s.tag = "Store" -> name(s.dst_addr)
         [] s.tag = "Call" -> name(s.dst) \cup name(s.fun)
         [] OTHER -> {}

(***************************************************************************)
(* C27: every Temp a statement uses as an address (the destination of      *)
(* Move, Load, Call, Binary, Unary or Cast, the address operand of Load,   *)
(* Store or Call) has a slot when translate_stm reaches the statement, so  *)
(* to_addr never reaches its `unreachable`: translation aborts only on an  *)
(* unimplemented operator or statement.  This holds also when the Temp is  *)
(* a formal parameter of the procedure.                                    *)
(***************************************************************************)
C27_AddressHasSlot ==
    /\ epc # "entry" => \A i \in 1..Len(body) : addrTemps(body[i]) \subseteq DOMAIN temps
    /\ epc = "panic" => (unsupportedStm(handed) \/ handed.tag \in GetAddrTags)

\* The loop is about to hand body[ip] to translate_stm.
atStm == epc = "loop" /\ ip >= 1 /\ ip <= Len(body)

(***************************************************************************)
(* C28: Load reads through the pointer held in its source: for             *)
(* non-parameter temporaries p and d, the instructions emitted for         *)
(* Load(d, Temp p) differ from those emitted for Move(d, Temp p): the two  *)
(* statements are not both translated to load slot(p); store slot(d).      *)
(***************************************************************************)
C28_LoadDereferences ==
    (atStm /\ body[ip].tag = "Load" /\ body[ip].src_addr.tag = "Temp"
       /\ body[ip].src_addr.name \notin params /\ body[ip].dst.name \notin params) =>
        translate_stm(Translator, body[ip]).blocks
            # translate_stm(Translator, Move(body[ip].dst, body[ip].src_addr)).blocks

(***************************************************************************)
(* Translate::translate (llvm_gen.rs:75-94): every procedure of the root   *)
(* is declared by init_proc, then every procedure is translated by         *)
(* translate_proc, whose body translation is the statement loop above.     *)
(***************************************************************************)
\* ProcTranslator::init_proc
InitProc ==
    /\ mpc = "run"
    /\ Len(funs) < Len(procs)
    /\ LET p == procs[Len(funs) + 1]
           ty == to_type(p.ret_type)
           tys == [i \in 1..Len(p.params) |-> to_type(p.params[i].ty)]
           fun_ty == [k |-> "function", ret |-> ty, args |-> tys]
       IN /\ module' = Append(module, [name |-> p.name, ty |-> fun_ty, blocks |-> << >>])
          /\ funs' = Append(funs, Len(module) + 1)
    /\ UNCHANGED <<procs, mpc, mi, varsLift, varsSubst, varsEmit>>

\* The BodyTranslator translate_proc builds for the procedure p.
newBodyTranslator(p) ==
    /\ body' = p.body
    /\ params' = paramNames(p.params)
    /\ epc' = "entry" /\ ip' = 0
    /\ labels' = << >> /\ temps' = << >> /\ blocks' = << >>
    /\ cur' = 0 /\ last_was_jump' = FALSE /\ prev' = [cur |-> 0, len |-> 0]

\* Mutant: a procedure is translated as soon as it has been declared.
TranslateProc_Eager ==
    /\ mpc = "run"
    /\ mi < Len(funs)
    /\ epc = "idle"
    /\ newBodyTranslator(procs[mi + 1])
    /\ UNCHANGED <<varsModule, varsLift, varsSubst>>

\* ProcTranslator::translate_proc, up to the call of t.translate: the
\* second loop starts once the first has declared every procedure.
TranslateProc ==
    /\ mpc = "run"
    /\ Len(funs) = Len(procs)
    /\ mi < Len(procs)
    /\ epc = "idle"
    /\ newBodyTranslator(procs[mi + 1])
    /\ UNCHANGED <<varsModule, varsLift, varsSubst>>

\* t.translate(&p.body) has returned: the blocks built are those of the
\* function zipped with the procedure, and the second loop moves on.
ProcDone ==
    /\ mpc = "run"
    /\ epc = "done"
    /\ module' = [module EXCEPT ![funs[mi + 1]].blocks = @ \o blocks]
    /\ mi' = mi + 1
    /\ epc' = "idle"
    /\ UNCHANGED <<procs, mpc, funs, body, params, ip, labels, temps, blocks, cur,
                   last_was_jump, prev, varsLift, varsSubst>>

\* builder.dispose(); module
ModuleDone ==
    /\ mpc = "run"
    /\ Len(funs) = Len(procs)
    /\ mi = Len(procs)
    /\ epc = "idle"
    /\ mpc' = "done"
    /\ UNCHANGED <<procs, funs, module, mi, varsLift, varsSubst, varsEmit>>

NextModule ==
    \/ InitProc
    \/ TranslateProc
    \/ TranslateEntry
    \/ TranslateLabel
    \/ SkipNop
    \/ TranslateStm
    \/ TranslateEnd
    \/ ProcDone
    \/ ModuleDone

\* LIR roots: at most MaxProcs procedures with distinct names among f, g, h,
\* each with the parameter p and a body that returns, calls a procedure of
\* that set, loops on a label, or moves into its parameter.
MaxProcs == 2

ProcNames == {"f", "g", "h"}

Proc(name, b) ==
    [name |-> NameNew(name), ret_type |-> LT("I32"),
     params |-> << Param(NameNew("p"), LT("I32")) >>, body |-> b]

CallBody(callee) ==
    << Call(Temp("t1", "I32"), Function(callee, TFun(LT("I32"), << LT("I32") >>)),
            << Temp("p", "I32") >>),
       Ret(Temp("t1", "I32")) >>

ProcBodies ==
    {CallBody(c) : c \in ProcNames}
    \cup { << Ret(LirLit("I32", 0)) >>,
           << Label("L1"), Nop, Jump("L1") >>,
           << Move(Temp("p", "I32"), LirLit("I32", 1)) >> }

LirRoots ==
    UNION {{r \in [1..n -> {Proc(f, b) : f \in ProcNames, b \in ProcBodies}] :
               \A i, j \in 1..n : r[i].name = r[j].name => i = j}
           : n \in 0..MaxProcs}

InitModule ==
    /\ procs \in LirRoots
    /\ mpc = "run"
    /\ funs = << >> /\ module = << >> /\ mi = 0
    /\ IdleLift
    /\ IdleSubst
    /\ IdleEmit

SpecModule == InitModule /\ [][NextModule]_vars

\* The signature init_proc declares for the procedure p.
signature(p) ==
    [k |-> "function", ret |-> to_type(p.ret_type),
     args |-> [i \in 1..Len(p.params) |-> to_type(p.params[i].ty)]]

\* The names of the module's functions an instruction refers to.
functionRefs(insn) ==
    IF insn.op = "call" /\ insn.f.k = "function" THEN {insn.f.name} ELSE {}

\* The blocks a single translation of the body b produces: the entry block
\* and one for every label referred to.
blockCount(b) == 1 + Len(distinct(concatAll([i \in 1..Len(b) |-> labelRefs(b[i])])))

(***************************************************************************)
(* C29: Translate::translate declares every procedure of the root in the   *)
(* module, with its translated signature, before the body of any           *)
(* procedure is translated, so a Call to a procedure that appears later in *)
(* r.procs refers to a function already declared; every procedure is       *)
(* declared exactly once and translated exactly once, in root order.       *)
(***************************************************************************)
C29_DeclareBeforeTranslate ==
    mpc # "idle" =>
        /\ (epc # "idle" \/ mi > 0 \/ mpc = "done") => Len(funs) = Len(procs)
        /\ Len(module) = Len(funs) /\ Len(funs) <= Len(procs) /\ mi <= Len(funs)
        /\ \A i \in 1..Len(funs) :
              /\ funs[i] = i
              /\ module[i].name = procs[i].name
              /\ module[i].ty = signature(procs[i])
              /\ i <= mi => Len(module[i].blocks) = blockCount(procs[i].body)
              /\ i > mi => module[i].blocks = << >>
        /\ epc # "idle" => (body = procs[mi + 1].body /\ params = paramNames(procs[mi + 1].params))
        /\ mpc = "done" => mi = Len(procs)
        /\ \A k \in 1..Len(blocks) : \A i \in 1..Len(blocks[k]) :
              \A n \in functionRefs(blocks[k][i]) :
                  (\E j \in 1..Len(procs) : procs[j].name = n) =>
                      \E j \in 1..Len(module) : module[j].name = n

\* The first procedure calls the second, and both have been translated.
C29_Witness ==
    /\ mpc = "done"
    /\ Len(procs) = 2
    /\ procs[1].body = CallBody("g") /\ procs[2].name = NameNew("g")
    /\ \E i \in 1..Len(module[1].blocks[1]) :
          functionRefs(module[1].blocks[1][i]) = {NameNew("g")}
    /\ module[2].blocks # << >>

\* The Lambda nodes of the HIR tree e in the order Lift::lift reaches the
\* end of their bodies: a lambda after the lambdas of its body, the
\* arguments of an application before its callee, otherwise left to right.
RECURSIVE lambdasPostOrder(_)
lambdasPostOrder(e) ==
    CASE e.tag = "Lambda" -> Append(lambdasPostOrder(e.body), e)
      [] e.tag = "Apply" ->
           concatAll([j \in 1..Len(e.args) |-> lambdasPostOrder(e.args[j])])
             \o lambdasPostOrder(e.fun)
      [] OTHER -> concatAll([j \in 1..Len(kids(e)) |-> lambdasPostOrder(kids(e)[j])])

\* The same, over the first k definitions of the root.
lambdasOfDefs(k) ==
    concatAll([i \in 1..k |->
                 IF root[i].tag = "ExternDef" THEN << >>
                 ELSE lambdasPostOrder(defExp(root[i]))])

\* The hoisted function d is the function of the lambda l.
functionOf(d, l) ==
    /\ d.tag = "FunDef" /\ IsFresh(d.name)
    /\ d.ret_type = l.ret_type
    /\ SubSeq(d.params, 1, Len(d.params) - 1) = l.params
    /\ Len(d.params) = Len(l.params) + 1

\* The function d refers to the function named f.
refersTo(d, f) == \E v \in subtrees(d.body) : v.tag = "Var" /\ v.name = f

(***************************************************************************)
(* C30: Lift::lift appends exactly one hoisted FunDef per Lambda node of   *)
(* the input root, wherever the lambda is nested (lambda bodies, Let       *)
(* initialisers, Apply callees and arguments, statements); closure         *)
(* conversion with its substitution neither duplicates nor drops a lambda; *)
(* and the FunDef of a lambda nested in another lambda's body is appended  *)
(* before the FunDef of the enclosing lambda.                              *)
(***************************************************************************)
C30_OneFunDefPerLambda ==
    /\ pc = "lift" =>
          /\ countTag(cc, "LambdaCC") = countTag(defExp(curDef), "Lambda")
          /\ countTag(cc, "Lambda") = 0
    /\ pc = "loop" =>
          /\ Len(decls) = Len(lambdasOfDefs(Len(defs)))
          /\ \A i \in 1..Len(decls) : functionOf(decls[i], lambdasOfDefs(Len(defs))[i])
    /\ pc = "done" =>
          LET hs == SubSeq(defs, Len(root) + 1, Len(defs))
              ls == lambdasOfDefs(Len(root))
          IN /\ Len(hs) = lambdasOf(root)
             /\ Len(hs) = Len(ls)
             /\ \A i \in 1..Len(hs) : functionOf(hs[i], ls[i])
             /\ \A i, j \in 1..Len(hs) : hs[i].name = hs[j].name => i = j
             /\ \A i, j \in 1..Len(hs) : refersTo(hs[j], hs[i].name) => i < j

\* A lambda with a parameter encloses a lambda without: the function of the
\* inner one comes first.
C30_Witness ==
    /\ pc = "done"
    /\ Len(root) = 1
    /\ defExp(root[1]).tag = "Lambda" /\ defExp(root[1]).params # << >>
    /\ defExp(root[1]).body.tag = "Lambda" /\ defExp(root[1]).body.params = << >>
    /\ Len(defs) = 3
    /\ Len(defs[2].params) = 1 /\ Len(defs[3].params) = 2
    /\ refersTo(defs[3], defs[2].name)

====
